---- MODULE Spec2Model ----
(***************************************************************************)
(* Model of the local persistence engine (LocalStorageManager) and of its  *)
(* REST-compatible shim (LocalAjax).                                       *)
(*                                                                         *)
(* The engine is an IndexedDB client.  Every public operation is an async  *)
(* function: it awaits init(), runs a synchronous block that opens one or  *)
(* more transactions, and is resumed by the events of those transactions.  *)
(* A transaction is an entry of txq; it runs (Commit...) once no earlier   *)
(* transaction with an overlapping scope is pending, which is the order    *)
(* IndexedDB guarantees.  Transactions over disjoint stores run in either  *)
(* order.                                                                  *)
(***************************************************************************)
EXTENDS Integers, Sequences, FiniteSets, TLC

\* ------------------------------------------------------------------ bounds
MaxOps == 3         \* operations called in one behaviour
MaxClock == 1       \* last instant of the wall clock
MaxHandlers == 3    \* on() calls made on one adapter
MaxAfter == 2       \* polling periods followed after the 10 s deadline

\* --------------------------------------------------------------- constants
Baseline == 1000    \* nextProjectId = nextAssetId = nextSceneId = 1000
PollMs == 100       \* setInterval(..., 100)
StopMs == 10000     \* setTimeout(..., 10000)

Kinds == {"project", "asset", "scene"}
STORES == Kinds \cup {"metadata"}
\* two callers, so that any two operations can overlap
CallIds == {1, 2}

VARIABLES
    tables,        \* persisted: kind -> (id -> record), the three object stores
    meta,          \* persisted: the Metadata store, kind -> next id (partial)
    db,            \* this.db is set
    initPromise,   \* this.initPromise: "null", "pending", "resolved", "rejected"
    nextId,        \* nextProjectId / nextAssetId / nextSceneId
    now,           \* the wall clock read by new Date()
    calls,         \* the operations in flight, one record per call
    txq,           \* pending transactions, in creation order
    returned,      \* history: kind -> ids returned by resolved creates
    lastIssued,    \* history: kind -> last id issued by this process (0: none)
    reloaded,      \* history: the page has been reloaded
    ops,           \* history: operations called so far
    ajax,          \* the LocalAjax object each caller holds
    page           \* the editor globals, the offline flag, interceptRestApi's timers

\* the state of the engine and of its store
engine == <<tables, meta, db, initPromise, nextId, now, calls, txq,
            returned, lastIssued, reloaded, ops>>

vars == <<tables, meta, db, initPromise, nextId, now, calls, txq,
          returned, lastIssued, reloaded, ops, ajax, page>>

\* ------------------------------------------------- partial objects (Partial<T>)
\* A partial object is a set of <<field, value>> pairs, one per own property.
Has(d, f) == \E p \in d : p[1] = f
Val(d, f) == (CHOOSE p \in d : p[1] = f)[2]

\* data.f || dflt  for a string field
OrStr(d, f, dflt) == IF Has(d, f) /\ Val(d, f) # "" THEN Val(d, f) ELSE dflt
\* data.f || dflt  for a number field
OrNum(d, f, dflt) == IF Has(d, f) /\ Val(d, f) # 0 THEN Val(d, f) ELSE dflt
\* data.parent ?? null  (null is the empty set, a reference is a singleton)
OrNull(d, f) == IF Has(d, f) THEN Val(d, f) ELSE {}

\* The object literal of createProject / createAsset / createScene.
NewRecord(k, id, d, t1, t2) ==
    IF k = "project"
    THEN [id |-> id, name |-> OrStr(d, "name", "Untitled"),
          created |-> t1, modified |-> t2]
    ELSE IF k = "asset"
    THEN [id |-> id, projectId |-> OrNum(d, "projectId", 0),
          branchId |-> OrStr(d, "branchId", "master"),
          parent |-> OrNull(d, "parent"),
          created |-> t1, modified |-> t2]
    ELSE [id |-> id, projectId |-> OrNum(d, "projectId", 0),
          branchId |-> OrStr(d, "branchId", "master"),
          created |-> t1, modified |-> t2]

\* { ...record, ...data, id: id, modified: t }
Fields(d) == {p[1] : p \in d}

MergeDropsId(r, d, id, t) ==
    [f \in DOMAIN r \cup Fields(d) \cup {"id", "modified"} |->
        IF f = "modified" THEN t
        ELSE IF Has(d, f) THEN Val(d, f)
        ELSE r[f]]

Merge(r, d, id, t) ==
    [f \in DOMAIN r \cup Fields(d) \cup {"id", "modified"} |->
        IF f = "id" THEN id
        ELSE IF f = "modified" THEN t
        ELSE IF Has(d, f) THEN Val(d, f)
        ELSE r[f]]

\* ------------------------------------------------------------ object stores
EmptyTable == [i \in {} |-> 0]
EmptyMeta == [k \in {} |-> 0]

Put(t, r) == [i \in (DOMAIN t) \cup {r.id} |-> IF i = r.id THEN r ELSE t[i]]
AddedOver(t, r) == Put(t, r)

\* store.add(record): refused when the key is stored, the table stays as it is
Added(t, r) == IF r.id \in DOMAIN t THEN t ELSE Put(t, r)
RemoveNothing(t, S) == t

RemoveWithChildren(t, S) ==
    [i \in {j \in (DOMAIN t) \ S :
                ~("parent" \in DOMAIN t[j] /\ t[j].parent \cap S # {})} |-> t[i]]

Remove(t, S) == [i \in (DOMAIN t) \ S |-> t[i]]
Lookup(t, id) == IF id \in DOMAIN t THEN {t[id]} ELSE {}
RecordsNone(t) == {}

Records(t) == {t[i] : i \in DOMAIN t}

\* index('projectId').getAll(IDBKeyRange.only(projectId))
ByProject(t, pid) == {r \in Records(t) : r.projectId = pid}

ListOfProject(t, pid, br) == ByProject(t, pid)

\* listAssets / listScenes: the index lookup, then the optional branch filter.
\* br is {} when no branchId is given, else {branchId}; `if (branchId)` is
\* false for the empty string too.
ListOf(t, pid, br) ==
    IF br = {} \/ br = {""} THEN ByProject(t, pid)
    ELSE {r \in ByProject(t, pid) : r.branchId \in br}

\* the cursor loop of deleteProject over one store
CascadeKeepsOtherBranches(t, pid) ==
    Remove(t, {i \in DOMAIN t : t[i].projectId = pid /\ t[i].branchId = "master"})

Cascade(t, pid) == Remove(t, {i \in DOMAIN t : t[i].projectId = pid})

\* --------------------------------------------------------------- LocalAjax
\* execute() is "awaiting" the promise, then its "timer" is set, then the event
\* is "emitted".  via tells which promise the shim function handed over,
\* handlers the events that have a handler, timer the arguments of the emit
\* the timer will make, invoked the handler invocations made.  queue is the
\* events of the on() calls in the order they were made (the handler arrays,
\* a handler being the position of its on() call), fired the handlers called
\* by emit in the order they were called.
NoAjax == [phase |-> "none", via |-> "none", handlers |-> {},
           timer |-> <<>>, invoked |-> {}, queue |-> <<>>, fired |-> <<>>]

\* ------------------------------------------------------------------- calls
ZeroSnap == [k \in Kinds |-> 0]

\* exportProject / importProject in progress in a call: the stage it is at,
\* the project read or created, the asset and scene arrays, the entries done
NoJob == [op |-> "none", stage |-> "none", project |-> {},
          assets |-> <<>>, scenes |-> <<>>, i |-> 0]

Idle == [op |-> "none", kind |-> "none", pc |-> "idle", id |-> 0, data |-> {},
         rec |-> {}, res |-> {}, snap |-> ZeroSnap, txdone |-> "no", err |-> "",
         job |-> NoJob]

Tx(c, t) == [c |-> c, t |-> t]

Scope(x) ==
    IF x.t = "meta" THEN {"metadata"}
    ELSE IF x.t = "cascade" THEN Kinds
    ELSE IF x.t = "clear" THEN STORES
    ELSE {calls[x.c].kind}

ReadOnly(x) == x.t \in {"get", "list"}

Conflict(x, y) ==
    /\ Scope(x) \cap Scope(y) # {}
    /\ ~(ReadOnly(x) /\ ReadOnly(y))

\* Transaction i may run: no earlier pending transaction overlaps it.
CanRun(i) == \A j \in 1..(i - 1) : ~Conflict(txq[j], txq[i])

Without(i) == SubSeq(txq, 1, i - 1) \o SubSeq(txq, i + 1, Len(txq))

\* A new call takes the first free slot; MaxOps bounds the calls of a behaviour.
FirstIdle(c) ==
    /\ ops < MaxOps
    /\ calls[c].pc = "idle" /\ \A b \in 1..(c - 1) : calls[b].pc # "idle"

Begun(c) == IF calls[c].pc = "idle" THEN ops + 1 ELSE ops

EntersAtOnce(c, op, k) ==
    \/ calls[c].pc = "init" /\ calls[c].op = op /\ calls[c].kind = k
    \/ FirstIdle(c)

\* Call c passes `await this.init()` into the body of operation op on kind k:
\* either it waited for init (Invoke), or it is called now with init resolved,
\* and then the await resumes it before any transaction event is delivered.
Enters(c, op, k) ==
    /\ initPromise = "resolved" /\ db
    /\ \/ calls[c].pc = "init" /\ calls[c].op = op /\ calls[c].kind = k
       \/ FirstIdle(c)

Entered(c, op, k) ==
    [Idle EXCEPT !.op = op, !.kind = k, !.job = calls[c].job, !.data = calls[c].data]

\* ------------------------------------------------------------------- state
\* The page before interceptRestApi is called: neither the editor's REST API
\* nor an offline flag is there.  editor: editor.api.globals.rest exists;
\* offline: isOfflineMode(); local: the times the local implementation was
\* merged into the editor's; time: ms since interceptRestApi was called;
\* interval, timeout: the two timers are set; polled: the time of the last
\* run of the interval callback.
NoPage == [called |-> FALSE, editor |-> FALSE, offline |-> FALSE, local |-> 0,
           time |-> 0, interval |-> FALSE, timeout |-> FALSE, polled |-> 0]

Init ==
    /\ tables = [k \in Kinds |-> EmptyTable]
    /\ meta = EmptyMeta
    /\ db = FALSE
    /\ initPromise = "null"
    /\ nextId = [k \in Kinds |-> Baseline]
    /\ now = 0
    /\ calls = [c \in CallIds |-> Idle]
    /\ txq = <<>>
    /\ returned = [k \in Kinds |-> {}]
    /\ lastIssued = [k \in Kinds |-> 0]
    /\ reloaded = FALSE
    /\ ops = 0
    /\ ajax = [c \in CallIds |-> NoAjax]
    /\ page = NoPage

\* ----------------------------------------------------------- initialization
Reopened(p) == "pending"

\* init(): the promise every caller gets; indexedDB.open is called, and the
\* promise created, only when there is none yet
Shared(p) == IF p = "null" THEN "pending" ELSE p

\* A public operation is called while init has not resolved: it runs up to
\* `await this.init()` and waits.  The first call creates the shared promise and
\* opens the database.
Invoke(c, op, k) ==
    /\ FirstIdle(c)
    /\ initPromise # "resolved"
    /\ calls' = [calls EXCEPT ![c] = [Idle EXCEPT !.op = op, !.kind = k, !.pc = "init"]]
    /\ initPromise' = Shared(initPromise)
    /\ ops' = Begun(c)
    /\ UNCHANGED <<tables, meta, db, nextId, now, txq, returned, lastIssued, reloaded>>

\* request.onsuccess: the handle is stored, loadMetadata starts
OpenSuccess ==
    /\ initPromise = "pending" /\ ~db
    /\ db' = TRUE
    /\ UNCHANGED <<tables, meta, initPromise, nextId, now, calls, txq,
                   returned, lastIssued, reloaded, ops>>

\* request.onerror
OpenError ==
    /\ initPromise = "pending" /\ ~db
    /\ initPromise' = "rejected"
    /\ UNCHANGED <<tables, meta, db, nextId, now, calls, txq,
                   returned, lastIssued, reloaded, ops>>

LoadKeepsBaseline(m, n) == n

\* the counters as loadMetadata's oncomplete leaves them
Loaded(m, n) == [k \in Kinds |-> IF k \in DOMAIN m THEN m[k] ELSE n[k]]

LoadMetadata ==
    /\ initPromise = "pending" /\ db
    /\ nextId' = Loaded(meta, nextId)
    /\ initPromise' = "resolved"
    /\ UNCHANGED <<tables, meta, db, now, calls, txq, returned, lastIssued, reloaded, ops>>

FailureSwallowed(call) == [call EXCEPT !.pc = "resolved"]

\* the call's promise rejects with the reason of the shared promise
Failure(call) == [call EXCEPT !.pc = "rejected", !.err = "init"]

\* `await this.init()` throws in an operation when the shared promise rejected
InitRejected(c) ==
    /\ calls[c].pc = "init" /\ initPromise = "rejected"
    /\ calls' = [calls EXCEPT ![c] = Failure(calls[c])]
    /\ UNCHANGED <<tables, meta, db, initPromise, nextId, now, txq,
                   returned, lastIssued, reloaded, ops>>

\* init() called by itself: it returns the shared promise, which is resolved
InitDone(c) ==
    /\ Enters(c, "init", "none")
    /\ calls' = [calls EXCEPT ![c] = [Entered(c, "init", "none") EXCEPT !.pc = "resolved"]]
    /\ ops' = Begun(c)
    /\ UNCHANGED <<tables, meta, db, initPromise, nextId, now, txq,
                   returned, lastIssued, reloaded>>

\* ------------------------------------------------------------------ create
\* createX called with undefined where a Partial<T> is expected
Undefined == {<<"undefined", "undefined">>}

NoIncrement(k) == nextId

\* getNextProjectId / getNextAssetId / getNextSceneId: the counters after `++`
Incremented(k) == [nextId EXCEPT ![k] = @ + 1]

\* createProject / createAsset / createScene after `await this.init()`: the id
\* is issued, the record is built (two clock reads, t1 then t2), the record
\* transaction is opened with its add request, and saveMetadata opens the
\* Metadata transaction with the three counters as they are now.
StartCreate(c, k, d, t2) ==
    LET id == nextId[k]
    IN /\ Enters(c, "create", k)
       /\ d # Undefined
       /\ t2 \in now..MaxClock
       /\ nextId' = Incremented(k)
       /\ now' = t2
       /\ calls' = [calls EXCEPT ![c] =
                        [Entered(c, "create", k) EXCEPT
                            !.pc = "awaitMeta",
                            !.rec = {NewRecord(k, id, d, now, t2)},
                            !.snap = nextId']]
       /\ txq' = txq \o <<Tx(c, "add"), Tx(c, "meta")>>
       /\ lastIssued' = [lastIssued EXCEPT ![k] = id]
       /\ ops' = Begun(c)
       /\ UNCHANGED <<tables, meta, db, initPromise, returned, reloaded>>

TypeErrorIgnored(call) == [call EXCEPT !.pc = "resolved", !.res = {[id |-> 0]}]

\* `data.name` throws a TypeError while the object literal is evaluated: the
\* promise of createX rejects
TypeError(call) == [call EXCEPT !.pc = "rejected", !.err = "TypeError"]

\* createProject(undefined) after `await this.init()`: the first property of
\* the literal, `id: this.getNextProjectId()`, is evaluated, the second one
\* throws; no transaction is opened and saveMetadata is not called.
CreateThrows(c) ==
    LET id == nextId["project"]
    IN /\ Enters(c, "create", "project")
       /\ calls[c].data = Undefined
       /\ nextId' = Incremented("project")
       /\ calls' = [calls EXCEPT ![c] =
                        TypeError(Entered(c, "create", "project"))]
       /\ lastIssued' = [lastIssued EXCEPT !["project"] = id]
       /\ ops' = Begun(c)
       /\ UNCHANGED <<tables, meta, db, initPromise, now, txq, returned, reloaded>>

\* The record transaction runs.  store.add fails (ConstraintError, the
\* transaction aborts) when the key is already stored.  Its complete / error
\* event reaches the promise only if oncomplete / onerror are attached by then,
\* which createX does after `await this.saveMetadata()`.
CommitAdd(i) ==
    LET c == txq[i].c
        k == calls[c].kind
        r == CHOOSE x \in calls[c].rec : TRUE
        ok == r.id \notin DOMAIN tables[k]
        attached == calls[c].pc = "awaitTx"
    IN /\ i \in 1..Len(txq) /\ txq[i].t = "add" /\ CanRun(i)
       /\ tables' = [tables EXCEPT ![k] = Added(@, r)]
       /\ calls' = IF attached
                   THEN IF ok
                        THEN [calls EXCEPT ![c].pc = "resolved", ![c].res = {r}]
                        ELSE [calls EXCEPT ![c].pc = "rejected", ![c].err = "constraint"]
                   ELSE [calls EXCEPT ![c].txdone = IF ok THEN "complete" ELSE "error"]
       /\ returned' = IF attached /\ ok
                      THEN [returned EXCEPT ![k] = @ \cup {r.id}]
                      ELSE returned
       /\ txq' = Without(i)
       /\ UNCHANGED <<meta, db, initPromise, nextId, now, lastIssued, reloaded, ops>>

SavedOnce(m, snap) == [k \in Kinds |-> IF k \in DOMAIN m THEN m[k] ELSE snap[k]]

\* the three store.put of saveMetadata
Saved(m, snap) == [k \in Kinds |-> snap[k]]

\* The Metadata transaction of saveMetadata completes; createX resumes and only
\* now attaches oncomplete / onerror to the record transaction.  If that
\* transaction has already finished, no event is left to settle the promise.
CommitMeta(i) ==
    LET c == txq[i].c
    IN /\ i \in 1..Len(txq) /\ txq[i].t = "meta" /\ CanRun(i)
       /\ meta' = Saved(meta, calls[c].snap)
       /\ calls' = [calls EXCEPT ![c].pc =
                        IF calls[c].txdone = "no" THEN "awaitTx" ELSE "hung"]
       /\ txq' = Without(i)
       /\ UNCHANGED <<tables, db, initPromise, nextId, now, returned, lastIssued, reloaded, ops>>

\* The awaiting caller takes the outcome (or drops a promise that never
\* settled); the call is over.
Release(c) ==
    /\ calls[c].pc \in {"resolved", "rejected", "hung"}
    /\ calls[c].job = NoJob \/ calls[c].pc = "hung"
    /\ calls' = [calls EXCEPT ![c] = Idle]
    /\ UNCHANGED <<tables, meta, db, initPromise, nextId, now, txq,
                   returned, lastIssued, reloaded, ops>>

\* The page is reloaded: a fresh LocalStorageManager (fields at their
\* initializers), every pending call and transaction is gone, the stores stay.
Restart ==
    /\ db' = FALSE
    /\ initPromise' = "null"
    /\ nextId' = [k \in Kinds |-> Baseline]
    /\ calls' = [c \in CallIds |-> Idle]
    /\ txq' = <<>>
    /\ lastIssued' = [k \in Kinds |-> 0]
    /\ reloaded' = TRUE
    /\ UNCHANGED <<tables, meta, now, returned, ops>>

\* the wall clock advances
Tick ==
    /\ now < MaxClock
    /\ now' = now + 1
    /\ UNCHANGED <<tables, meta, db, initPromise, nextId, calls, txq,
                   returned, lastIssued, reloaded, ops>>

\* --------------------------------------------------------------------- get
\* getProject / getAsset / getScene after `await this.init()`: a readonly
\* transaction with one store.get; the handlers are attached at once.
StartGet(c, k, id) ==
    /\ Enters(c, "get", k)
    /\ calls' = [calls EXCEPT ![c] =
                     [Entered(c, "get", k) EXCEPT !.pc = "awaitTx", !.id = id]]
    /\ txq' = Append(txq, Tx(c, "get"))
    /\ ops' = Begun(c)
    /\ UNCHANGED <<tables, meta, db, initPromise, nextId, now,
                   returned, lastIssued, reloaded>>

\* request.onsuccess of the get: resolve(request.result)
CommitGet(i) ==
    LET c == txq[i].c
    IN /\ i \in 1..Len(txq) /\ txq[i].t = "get" /\ calls[c].op = "get" /\ CanRun(i)
       /\ calls' = [calls EXCEPT ![c].pc = "resolved",
                                 ![c].res = Lookup(tables[calls[c].kind], calls[c].id)]
       /\ txq' = Without(i)
       /\ UNCHANGED <<tables, meta, db, initPromise, nextId, now,
                      returned, lastIssued, reloaded, ops>>

\* ------------------------------------------------------------------ update
\* updateProject / updateAsset / updateScene after `await this.init()`: the
\* record is read by getX, in a readonly transaction of its own.
StartUpdate(c, k, id, d) ==
    /\ Enters(c, "update", k)
    /\ calls' = [calls EXCEPT ![c] =
                     [Entered(c, "update", k) EXCEPT
                         !.pc = "awaitGet", !.id = id, !.data = d]]
    /\ txq' = Append(txq, Tx(c, "get"))
    /\ ops' = Begun(c)
    /\ UNCHANGED <<tables, meta, db, initPromise, nextId, now,
                   returned, lastIssued, reloaded>>

UpsertMissing(found) == FALSE

\* `if (!project) throw new Error('... not found')`
NotFound(found) == found = {}

\* getX has resolved inside updateX: a missing record rejects the update;
\* otherwise the merged record is built and a second, readwrite transaction is
\* opened with store.put(merged).
UpdateRead(i) ==
    LET c == txq[i].c
        k == calls[c].kind
        found == Lookup(tables[k], calls[c].id)
        old == IF found = {} THEN [id |-> calls[c].id] ELSE CHOOSE x \in found : TRUE
    IN /\ i \in 1..Len(txq) /\ txq[i].t = "get" /\ calls[c].op = "update" /\ CanRun(i)
       /\ IF NotFound(found)
          THEN /\ calls' = [calls EXCEPT ![c].pc = "rejected", ![c].err = "notfound"]
               /\ txq' = Without(i)
          ELSE /\ calls' = [calls EXCEPT
                              ![c].pc = "awaitTx",
                              ![c].res = found,
                              ![c].rec = {Merge(old, calls[c].data, calls[c].id, now)}]
               /\ txq' = Append(Without(i), Tx(c, "put"))
       /\ UNCHANGED <<tables, meta, db, initPromise, nextId, now,
                      returned, lastIssued, reloaded, ops>>

\* the put transaction of updateX completes: resolve(updatedX)
CommitPut(i) ==
    LET c == txq[i].c
        k == calls[c].kind
        r == CHOOSE x \in calls[c].rec : TRUE
    IN /\ i \in 1..Len(txq) /\ txq[i].t = "put" /\ CanRun(i)
       /\ tables' = [tables EXCEPT ![k] = Put(@, r)]
       /\ calls' = [calls EXCEPT ![c].pc = "resolved"]
       /\ txq' = Without(i)
       /\ UNCHANGED <<meta, db, initPromise, nextId, now, returned, lastIssued, reloaded, ops>>

\* ------------------------------------------------------------------ delete
\* deleteAsset / deleteScene (one store) and deleteProject (three stores, the
\* project and every asset and scene of its projectId index) after init.
StartDelete(c, k, id) ==
    /\ Enters(c, "delete", k)
    /\ calls' = [calls EXCEPT ![c] =
                     [Entered(c, "delete", k) EXCEPT !.pc = "awaitTx", !.id = id]]
    /\ txq' = Append(txq, Tx(c, IF k = "project" THEN "cascade" ELSE "delete"))
    /\ ops' = Begun(c)
    /\ UNCHANGED <<tables, meta, db, initPromise, nextId, now,
                   returned, lastIssued, reloaded>>

CommitDelete(i) ==
    LET c == txq[i].c
        k == calls[c].kind
    IN /\ i \in 1..Len(txq) /\ txq[i].t = "delete" /\ CanRun(i)
       /\ tables' = [tables EXCEPT ![k] = Remove(@, {calls[c].id})]
       /\ calls' = [calls EXCEPT ![c].pc = "resolved"]
       /\ txq' = Without(i)
       /\ UNCHANGED <<meta, db, initPromise, nextId, now, returned, lastIssued, reloaded, ops>>

CascadeProjectOnly(i) ==
    LET c == txq[i].c
    IN /\ i \in 1..Len(txq) /\ txq[i].t = "cascade" /\ CanRun(i)
       /\ tables' = [tables EXCEPT !["project"] = Remove(@, {calls[c].id})]
       /\ calls' = [calls EXCEPT ![c].pc = "resolved"]
       /\ txq' = Without(i)
       /\ UNCHANGED <<meta, db, initPromise, nextId, now, returned, lastIssued, reloaded, ops>>

\* the transaction of deleteProject completes: the project and every asset and
\* scene of its projectId index are removed together
CommitCascade(i) ==
    LET c == txq[i].c
        pid == calls[c].id
    IN /\ i \in 1..Len(txq) /\ txq[i].t = "cascade" /\ CanRun(i)
       /\ tables' = [tables EXCEPT !["project"] = Remove(@, {pid}),
                                   !["asset"] = Cascade(@, pid),
                                   !["scene"] = Cascade(@, pid)]
       /\ calls' = [calls EXCEPT ![c].pc = "resolved"]
       /\ txq' = Without(i)
       /\ UNCHANGED <<meta, db, initPromise, nextId, now, returned, lastIssued, reloaded, ops>>

\* The transaction of deleteProject fails: nothing it did is kept.  An error
\* event of one of its requests reaches transaction.onerror and rejects the
\* promise; an abort with no request error fires only the abort event, which
\* has no handler.
AbortCascade(i) ==
    LET c == txq[i].c
    IN /\ i \in 1..Len(txq) /\ txq[i].t = "cascade" /\ CanRun(i)
       /\ \/ calls' = [calls EXCEPT ![c].pc = "rejected", ![c].err = "abort"]
          \/ calls' = [calls EXCEPT ![c].pc = "hung"]
       /\ txq' = Without(i)
       /\ UNCHANGED <<tables, meta, db, initPromise, nextId, now,
                      returned, lastIssued, reloaded, ops>>

\* -------------------------------------------------------------------- list
\* listProjects (kind "project": getAll, no filter), listAssets, listScenes
StartList(c, k, pid, br) ==
    /\ Enters(c, "list", k)
    /\ calls' = [calls EXCEPT ![c] =
                     [Entered(c, "list", k) EXCEPT
                         !.pc = "awaitTx", !.id = pid,
                         !.data = {<<"branchId", b>> : b \in br}]]
    /\ txq' = Append(txq, Tx(c, "list"))
    /\ ops' = Begun(c)
    /\ UNCHANGED <<tables, meta, db, initPromise, nextId, now,
                   returned, lastIssued, reloaded>>

CommitList(i) ==
    LET c == txq[i].c
        k == calls[c].kind
        br == {p[2] : p \in calls[c].data}
    IN /\ i \in 1..Len(txq) /\ txq[i].t = "list" /\ CanRun(i)
       /\ calls' = [calls EXCEPT ![c].pc = "resolved",
                                 ![c].res = IF k = "project" THEN Records(tables[k])
                                            ELSE ListOf(tables[k], calls[c].id, br)]
       /\ txq' = Without(i)
       /\ UNCHANGED <<tables, meta, db, initPromise, nextId, now,
                      returned, lastIssued, reloaded, ops>>

\* ---------------------------------------------------------------- clearAll
StartClear(c) ==
    /\ Enters(c, "clearAll", "none")
    /\ calls' = [calls EXCEPT ![c] =
                     [Entered(c, "clearAll", "none") EXCEPT !.pc = "awaitTx"]]
    /\ txq' = Append(txq, Tx(c, "clear"))
    /\ ops' = Begun(c)
    /\ UNCHANGED <<tables, meta, db, initPromise, nextId, now,
                   returned, lastIssued, reloaded>>

ResetNothing == nextId

\* the three counters as clearAll's oncomplete sets them
Reset == [k \in Kinds |-> Baseline]

\* every store is emptied; oncomplete resets the three counters
CommitClear(i) ==
    LET c == txq[i].c
    IN /\ i \in 1..Len(txq) /\ txq[i].t = "clear" /\ CanRun(i)
       /\ tables' = [k \in Kinds |-> EmptyTable]
       /\ meta' = EmptyMeta
       /\ nextId' = Reset
       /\ calls' = [calls EXCEPT ![c].pc = "resolved"]
       /\ txq' = Without(i)
       /\ UNCHANGED <<db, initPromise, now, returned, lastIssued, reloaded, ops>>

\* --------------------------------------------------------- export / import
The(S) == CHOOSE x \in S : TRUE

\* what getAll returns for a set of records: an array in key order
SortById(S) ==
    CHOOSE s \in [1..Cardinality(S) -> S] :
        \A i, j \in 1..Cardinality(S) : i < j => s[i].id < s[j].id

\* a stored record passed where a Partial<T> is expected
AsPartial(r) == {<<f, r[f]>> : f \in DOMAIN r}

ImportEntryKeepsProject(r, pid) == AsPartial(r)

ImportEntryWithoutParent(r, pid) ==
    {p \in AsPartial(r) : p[1] \notin {"projectId", "parent"}} \cup {<<"projectId", pid>>}

\* { ...assetData, projectId: project.id }
ImportEntry(r, pid) ==
    {p \in AsPartial(r) : p[1] # "projectId"} \cup {<<"projectId", pid>>}

EntryFromEnd(q, n) == q[Len(q) - n]

\* `for (const assetData of data.assets)`: the entry taken after n were done
Entry(q, n) == q[n + 1]

\* an awaited inner call rejected: exportProject / importProject rejects
ThrownAway(call) == [Idle EXCEPT !.op = call.job.op, !.pc = "resolved"]

\* the awaited call rejected: exportProject / importProject has no catch, its
\* promise rejects with the same reason and nothing of it runs any more
Thrown(call) ==
    [Idle EXCEPT !.op = call.job.op, !.pc = "rejected", !.err = call.err]

\* Inside exportProject / importProject a public operation is called and
\* awaited: it runs up to its own `await this.init()`.
Inner(op, k, id, d, job) ==
    [Idle EXCEPT !.op = op, !.kind = k, !.pc = "init", !.id = id, !.data = d,
                 !.job = job]

SnapshotWithoutScenes(job, scenes, t) ==
    [project |-> job.project, assets |-> job.assets, scenes |-> <<>>, exportedAt |-> t]

\* the object exportProject returns, listScenes having resolved with scenes
Snapshot(job, scenes, t) ==
    [project |-> job.project, assets |-> job.assets, scenes |-> SortById(scenes),
     exportedAt |-> t]

\* exportProject after `await this.init()`: getProject(projectId) is called
StartExport(c, pid) ==
    /\ Enters(c, "export", "none")
    /\ calls' = [calls EXCEPT ![c] =
                     Inner("get", "project", pid, {},
                           [NoJob EXCEPT !.op = "export", !.stage = "project"])]
    /\ ops' = Begun(c)
    /\ UNCHANGED <<tables, meta, db, initPromise, nextId, now, txq,
                   returned, lastIssued, reloaded>>

\* exportProject resumes from an await: listAssets, then listScenes, then the
\* snapshot { project, assets, scenes, exportedAt } is returned.
ExportStep(c) ==
    LET call == calls[c]
        job == call.job
    IN /\ job.op = "export" /\ call.pc \in {"resolved", "rejected"}
       /\ calls' = [calls EXCEPT ![c] =
             IF call.pc = "rejected" THEN Thrown(call)
             ELSE IF job.stage = "project"
             THEN Inner("list", "asset", call.id, {},
                        [job EXCEPT !.stage = "assets", !.project = call.res])
             ELSE IF job.stage = "assets"
             THEN Inner("list", "scene", call.id, {},
                        [job EXCEPT !.stage = "scenes", !.assets = SortById(call.res)])
             ELSE [Idle EXCEPT !.op = "export", !.pc = "resolved", !.id = call.id,
                               !.res = {Snapshot(job, call.res, now)}]]
       /\ UNCHANGED <<tables, meta, db, initPromise, nextId, now, txq,
                      returned, lastIssued, reloaded, ops>>

\* importProject after `await this.init()`: createProject(data.project) is
\* called.  data is a snapshot with a project.
StartImport(c, data) ==
    /\ Enters(c, "import", "none")
    /\ data.project # {}
    /\ calls' = [calls EXCEPT ![c] =
                     Inner("create", "project", 0, AsPartial(The(data.project)),
                           [NoJob EXCEPT !.op = "import", !.stage = "project",
                                         !.assets = data.assets,
                                         !.scenes = data.scenes])]
    /\ ops' = Begun(c)
    /\ UNCHANGED <<tables, meta, db, initPromise, nextId, now, txq,
                   returned, lastIssued, reloaded>>

\* importProject after `await this.init()` with a snapshot that has no project
\* (or a null one): createProject(undefined) is called
StartImportBare(c, data) ==
    /\ Enters(c, "import", "none")
    /\ data.project = {}
    /\ calls' = [calls EXCEPT ![c] =
                     Inner("create", "project", 0, Undefined,
                           [NoJob EXCEPT !.op = "import", !.stage = "project",
                                         !.assets = data.assets,
                                         !.scenes = data.scenes])]
    /\ ops' = Begun(c)
    /\ UNCHANGED <<tables, meta, db, initPromise, nextId, now, txq,
                   returned, lastIssued, reloaded>>

\* importProject resumes from an awaited create: the next entry of data.assets,
\* then of data.scenes, is created with the new project's id; after the last
\* one the project is returned.
ImportStep(c) ==
    LET call == calls[c]
        job == call.job
        proj == IF job.stage = "project" THEN call.res ELSE job.project
        pid == The(proj).id
        na == IF job.stage = "project" THEN 0
              ELSE IF job.stage = "assets" THEN job.i ELSE Len(job.assets)
        ns == IF job.stage = "scenes" THEN job.i ELSE 0
    IN /\ job.op = "import" /\ call.pc \in {"resolved", "rejected"}
       /\ calls' = [calls EXCEPT ![c] =
             IF call.pc = "rejected" THEN Thrown(call)
             ELSE IF na < Len(job.assets)
             THEN Inner("create", "asset", 0, ImportEntry(Entry(job.assets, na), pid),
                        [job EXCEPT !.stage = "assets", !.project = proj, !.i = na + 1])
             ELSE IF ns < Len(job.scenes)
             THEN Inner("create", "scene", 0, ImportEntry(Entry(job.scenes, ns), pid),
                        [job EXCEPT !.stage = "scenes", !.project = proj, !.i = ns + 1])
             ELSE [Idle EXCEPT !.op = "import", !.pc = "resolved", !.res = proj]]
       /\ UNCHANGED <<tables, meta, db, initPromise, nextId, now, txq,
                      returned, lastIssued, reloaded, ops>>

\* ------------------------------------------------------------ the REST shim
\* new LocalAjax(promise) followed by the caller's .on(event, handler) chain
\* the on() calls chained to the shim call: none, or .on('load').on('error')
Chain(regs) == IF regs = {} THEN <<>> ELSE <<"load", "error">>

LocalAjaxEmitsAtOnce(via, regs) ==
    [NoAjax EXCEPT !.phase = "emitted", !.via = via, !.handlers = regs,
                   !.queue = Chain(regs)]

\* new LocalAjax(promise) followed by the chained on() calls: execute() has run
\* up to `await this.promise`
LocalAjax(via, regs) ==
    [NoAjax EXCEPT !.phase = "awaiting", !.via = via, !.handlers = regs,
                   !.queue = Chain(regs)]

ImageUrl == "data:"
Owner == 2

\* what an engine call resolves with
Result(call) == IF call.op = "update" THEN call.rec ELSE call.res

\* The promise handed to LocalAjax by the shim function of caller c: the
\* engine's (or a literal) promise, or for projectImage a promise that is
\* resolved with the url in the .then of updateProject and has no reject path.
PromiseOf(c) ==
    IF ajax[c].via = "image"
    THEN IF calls[c].pc = "resolved"
         THEN <<"resolved", {[url |-> ImageUrl]}>>
         ELSE <<"pending">>
    ELSE IF calls[c].pc = "resolved" THEN <<"resolved", Result(calls[c])>>
    ELSE IF calls[c].pc = "rejected" THEN <<"rejected", calls[c].err>>
    ELSE <<"pending">>

\* projectCreate(args)
projectCreate(c, regs) ==
    /\ ajax[c].phase = "none" /\ calls[c].pc = "idle"
    /\ Invoke(c, "create", "project") \/ StartCreate(c, "project", {}, now)
    /\ ajax' = [ajax EXCEPT ![c] = LocalAjax("promise", regs)]
    /\ UNCHANGED page

\* projectGet({ projectId })
projectGet(c, id, regs) ==
    /\ ajax[c].phase = "none" /\ calls[c].pc = "idle"
    /\ Invoke(c, "get", "project") \/ StartGet(c, "project", id)
    /\ ajax' = [ajax EXCEPT ![c] = LocalAjax("promise", regs)]
    /\ UNCHANGED page

\* the patch of projectTransfer and the one of projectImage
PatchOf(via) ==
    IF via = "image" THEN {<<"image_url", ImageUrl>>} ELSE {<<"owner", Owner>>}

\* projectTransfer(projectId, data)
projectTransfer(c, id, regs) ==
    /\ ajax[c].phase = "none" /\ calls[c].pc = "idle"
    /\ Invoke(c, "update", "project")
          \/ StartUpdate(c, "project", id, PatchOf("promise"))
    /\ ajax' = [ajax EXCEPT ![c] = LocalAjax("promise", regs)]
    /\ UNCHANGED page

\* projectImage(projectId, file): the promise is created and the FileReader is
\* started; updateProject is called by reader.onload.
projectImage(c, regs) ==
    /\ ajax[c].phase = "none" /\ FirstIdle(c)
    /\ calls' = [calls EXCEPT ![c] =
                     [Idle EXCEPT !.op = "update", !.kind = "project", !.pc = "reader"]]
    /\ ajax' = [ajax EXCEPT ![c] = LocalAjax("image", regs)]
    /\ UNCHANGED page
    /\ ops' = ops + 1
    /\ UNCHANGED <<tables, meta, db, initPromise, nextId, now, txq,
                   returned, lastIssued, reloaded>>

\* reader.onload: updateProject is called and runs up to `await this.init()`
ReaderLoad(c) ==
    /\ calls[c].pc = "reader"
    /\ calls' = [calls EXCEPT ![c].pc = "init"]
    /\ initPromise' = IF initPromise = "null" THEN "pending" ELSE initPromise
    /\ UNCHANGED <<tables, meta, db, nextId, now, txq,
                   returned, lastIssued, reloaded, ops, ajax, page>>

\* projectImport(args) without args.data: LocalAjax.post(Promise.reject(...))
projectImport(c, regs) ==
    /\ ajax[c].phase = "none" /\ FirstIdle(c)
    /\ calls' = [calls EXCEPT ![c] =
                     [Idle EXCEPT !.pc = "rejected", !.err = "import data required"]]
    /\ ajax' = [ajax EXCEPT ![c] = LocalAjax("promise", regs)]
    /\ UNCHANGED page
    /\ ops' = ops + 1
    /\ UNCHANGED <<tables, meta, db, initPromise, nextId, now, txq,
                   returned, lastIssued, reloaded>>

\* projectUnlock(projectId): LocalAjax.post(Promise.resolve({ success: true }))
projectUnlock(c, regs) ==
    /\ ajax[c].phase = "none" /\ FirstIdle(c)
    /\ calls' = [calls EXCEPT ![c] =
                     [Idle EXCEPT !.pc = "resolved", !.res = {[success |-> TRUE]}]]
    /\ ajax' = [ajax EXCEPT ![c] = LocalAjax("promise", regs)]
    /\ UNCHANGED page
    /\ ops' = ops + 1
    /\ UNCHANGED <<tables, meta, db, initPromise, nextId, now, txq,
                   returned, lastIssued, reloaded>>

\* An engine call made through the shim passes `await this.init()`.
Resume(c) ==
    /\ calls[c].pc = "init"
    /\ \/ StartCreate(c, "project", {}, now)
       \/ StartGet(c, "project", Baseline)
       \/ StartUpdate(c, "project", Baseline, PatchOf(ajax[c].via))
    /\ UNCHANGED <<ajax, page>>

\* on(event, handler) for an event that has no handler yet
On(c, event) ==
    /\ ajax[c].phase # "none" /\ event \notin ajax[c].handlers
    /\ ajax' = [ajax EXCEPT ![c].handlers = @ \cup {event},
                            ![c].queue = Append(@, event)]
    /\ UNCHANGED <<engine, page>>

\* on(event, handler) for an event that has a handler: one more is pushed
OnAgain(c, event) ==
    /\ ajax[c].phase # "none" /\ event \in ajax[c].handlers
    /\ Len(ajax[c].queue) < MaxHandlers
    /\ ajax' = [ajax EXCEPT ![c].queue = Append(@, event)]
    /\ UNCHANGED <<engine, page>>

FiredLastFirst(q, e) ==
    LET n == Cardinality({i \in 1..Len(q) : q[i] = e})
        up == LET Test(i) == q[i] = e IN SelectSeq([i \in 1..Len(q) |-> i], Test)
    IN [i \in 1..n |-> up[n + 1 - i]]

\* this.handlers[event].forEach(...): the handlers of the event, in the order
\* of their on() calls
Fired(q, e) ==
    LET Test(i) == q[i] = e IN SelectSeq([i \in 1..Len(q) |-> i], Test)

OutcomeAlwaysLoad(p) == <<"load", 200, p[2]>>

\* the two branches of execute(): the arguments of the emit
Outcome(p) ==
    IF p[1] = "resolved" THEN <<"load", 200, p[2]>> ELSE <<"error", 500, p[2]>>

\* execute() resumes from `await this.promise` and sets the 10 ms timer
Execute(c) ==
    /\ ajax[c].phase = "awaiting" /\ PromiseOf(c)[1] # "pending"
    /\ ajax' = [ajax EXCEPT ![c].phase = "timer", ![c].timer = Outcome(PromiseOf(c))]
    /\ UNCHANGED <<engine, page>>

\* the timer fires: emit(event, status, payload) calls the handlers of event
Timeout(c) ==
    /\ ajax[c].phase = "timer"
    /\ ajax' = [ajax EXCEPT
                   ![c].phase = "emitted",
                   ![c].invoked = IF ajax[c].timer[1] \in ajax[c].handlers
                                  THEN {ajax[c].timer} ELSE {},
                   ![c].fired = Fired(ajax[c].queue, ajax[c].timer[1])]
    /\ UNCHANGED <<engine, page>>

\* the caller is done with a call that has emitted
ShimRelease(c) ==
    /\ ajax[c].phase = "emitted"
    /\ Release(c)
    /\ ajax' = [ajax EXCEPT ![c] = NoAjax]
    /\ UNCHANGED page

\* --------------------------------------------------------- the interceptor
\* interceptRestApi(): the interval and the timeout are set
interceptRestApi ==
    /\ ~page.called
    /\ page' = [page EXCEPT !.called = TRUE, !.interval = TRUE, !.timeout = TRUE,
                            !.time = 0, !.polled = 0]
    /\ UNCHANGED <<engine, ajax>>

\* the editor has loaded: editor.api.globals.rest exists from now on
EditorLoads ==
    /\ ~page.editor
    /\ page' = [page EXCEPT !.editor = TRUE]
    /\ UNCHANGED <<engine, ajax>>

\* window.__LOCAL_STORAGE__ / window.__OFFLINE_MODE__ is set
SetOffline ==
    /\ ~page.offline
    /\ page' = [page EXCEPT !.offline = TRUE]
    /\ UNCHANGED <<engine, ajax>>

\* a timer is due: the interval PollMs after its last run, the timeout StopMs
\* after the call
IntervalDue == page.interval /\ page.polled + PollMs <= page.time
TimeoutDue == page.timeout /\ StopMs <= page.time

\* time passes, up to the next moment a timer is due
Elapse ==
    /\ page.called /\ ~IntervalDue /\ ~TimeoutDue
    /\ page.time < StopMs + MaxAfter * PollMs
    /\ page' = [page EXCEPT !.time = @ + PollMs]
    /\ UNCHANGED <<engine, ajax>>

ClearIntervalNot(p) == p

\* clearInterval(checkEditorApi)
ClearInterval(p) == [p EXCEPT !.interval = FALSE]

\* Object.keys(localRestApi).forEach(...) under `if (isOfflineMode())`
Replaced(p) == IF p.offline THEN [p EXCEPT !.local = @ + 1] ELSE p

\* the interval callback runs: when the editor's REST API is there the
\* interval is cleared and, in offline mode, the local implementation merged
checkEditorApi ==
    /\ IntervalDue
    /\ page' = IF page.editor
               THEN Replaced(ClearInterval([page EXCEPT !.polled = page.time]))
               ELSE [page EXCEPT !.polled = page.time]
    /\ UNCHANGED <<engine, ajax>>

\* the timeout callback runs: "stop checking after 10 seconds"
StopChecking ==
    /\ TimeoutDue
    /\ page' = ClearInterval([page EXCEPT !.timeout = FALSE])
    /\ UNCHANGED <<engine, ajax>>

\* ----------------------------------------------------------- specifications
\* what the callers pass
ArgIds == {Baseline, Baseline + 1}
HostilePatch == {<<"id", Baseline + 1>>}

\* Identifier issuance: creates, updates, deletes and delete-cascades of the
\* three kinds called on the engine, and reloads of the page.
IdNext ==
    \/ \E c \in CallIds, k \in Kinds :
          \E op \in {"create", "update", "delete"} : Invoke(c, op, k) /\ UNCHANGED <<ajax, page>>
    \/ \E c \in CallIds, k \in Kinds : StartCreate(c, k, {}, now) /\ UNCHANGED <<ajax, page>>
    \/ \E c \in CallIds, k \in Kinds, id \in ArgIds :
          StartUpdate(c, k, id, HostilePatch) /\ UNCHANGED <<ajax, page>>
    \/ \E c \in CallIds, k \in Kinds, id \in ArgIds : StartDelete(c, k, id) /\ UNCHANGED <<ajax, page>>
    \/ \E c \in CallIds : Release(c) /\ UNCHANGED <<ajax, page>>
    \/ \E c \in CallIds : InitRejected(c) /\ UNCHANGED <<ajax, page>>
    \/ \E i \in 1..Len(txq) : CommitAdd(i) /\ UNCHANGED <<ajax, page>>
    \/ \E i \in 1..Len(txq) : CommitMeta(i) /\ UNCHANGED <<ajax, page>>
    \/ \E i \in 1..Len(txq) : UpdateRead(i) /\ UNCHANGED <<ajax, page>>
    \/ \E i \in 1..Len(txq) : CommitPut(i) /\ UNCHANGED <<ajax, page>>
    \/ \E i \in 1..Len(txq) : CommitDelete(i) /\ UNCHANGED <<ajax, page>>
    \/ \E i \in 1..Len(txq) : CommitCascade(i) /\ UNCHANGED <<ajax, page>>
    \/ OpenSuccess /\ UNCHANGED <<ajax, page>>
    \/ OpenError /\ UNCHANGED <<ajax, page>>
    \/ LoadMetadata /\ UNCHANGED <<ajax, page>>
    \/ Restart /\ UNCHANGED <<ajax, page>>

IdSpec == Init /\ [][IdNext]_vars

\* Ownership: records of a project in two branches, written, listed, deleted
\* one by one, by cascade and by clearAll.
ProjectData == {{}}
ChildData ==
    {{<<"projectId", Baseline>>},
     {<<"projectId", Baseline>>, <<"branchId", "dev">>}}
CreateData(k) == IF k = "project" THEN ProjectData ELSE ChildData
Patches(k) ==
    IF k = "project" THEN {{<<"name", "">>}}
    ELSE {{<<"projectId", Baseline + 1>>}}
BranchArgs == {{}, {"dev"}}

Next ==
    \/ \E c \in CallIds, k \in Kinds :
          \E op \in {"create", "update", "delete", "list"} :
              Invoke(c, op, k) /\ UNCHANGED <<ajax, page>>
    \/ \E c \in CallIds : Invoke(c, "clearAll", "none") /\ UNCHANGED <<ajax, page>>
    \/ \E c \in CallIds, k \in Kinds :
          \E d \in CreateData(k) : StartCreate(c, k, d, now) /\ UNCHANGED <<ajax, page>>
    \/ \E c \in CallIds, k \in Kinds, id \in ArgIds :
          \E d \in Patches(k) : StartUpdate(c, k, id, d) /\ UNCHANGED <<ajax, page>>
    \/ \E c \in CallIds, k \in Kinds, id \in ArgIds : StartDelete(c, k, id) /\ UNCHANGED <<ajax, page>>
    \/ \E c \in CallIds, k \in Kinds, br \in BranchArgs :
          StartList(c, k, Baseline, br) /\ UNCHANGED <<ajax, page>>
    \/ \E c \in CallIds : StartClear(c) /\ UNCHANGED <<ajax, page>>
    \/ \E c \in CallIds : Release(c) /\ UNCHANGED <<ajax, page>>
    \/ \E c \in CallIds : InitRejected(c) /\ UNCHANGED <<ajax, page>>
    \/ \E i \in 1..Len(txq) : CommitAdd(i) /\ UNCHANGED <<ajax, page>>
    \/ \E i \in 1..Len(txq) : CommitMeta(i) /\ UNCHANGED <<ajax, page>>
    \/ \E i \in 1..Len(txq) : UpdateRead(i) /\ UNCHANGED <<ajax, page>>
    \/ \E i \in 1..Len(txq) : CommitPut(i) /\ UNCHANGED <<ajax, page>>
    \/ \E i \in 1..Len(txq) : CommitDelete(i) /\ UNCHANGED <<ajax, page>>
    \/ \E i \in 1..Len(txq) : CommitCascade(i) /\ UNCHANGED <<ajax, page>>
    \/ \E i \in 1..Len(txq) : CommitList(i) /\ UNCHANGED <<ajax, page>>
    \/ \E i \in 1..Len(txq) : CommitClear(i) /\ UNCHANGED <<ajax, page>>
    \/ OpenSuccess /\ UNCHANGED <<ajax, page>>
    \/ OpenError /\ UNCHANGED <<ajax, page>>
    \/ LoadMetadata /\ UNCHANGED <<ajax, page>>

Spec == Init /\ [][Next]_vars

\* Lookups: gets and updates of ids that are, are not yet, or are no longer
\* stored.
ReadNext ==
    \/ \E c \in CallIds, k \in Kinds :
          \E op \in {"create", "get", "update", "delete"} :
              Invoke(c, op, k) /\ UNCHANGED <<ajax, page>>
    \/ \E c \in CallIds, k \in Kinds : StartCreate(c, k, {}, now) /\ UNCHANGED <<ajax, page>>
    \/ \E c \in CallIds, k \in Kinds : StartGet(c, k, Baseline) /\ UNCHANGED <<ajax, page>>
    \/ \E c \in CallIds, k \in Kinds :
          StartUpdate(c, k, Baseline, {<<"name", "B">>}) /\ UNCHANGED <<ajax, page>>
    \/ \E c \in CallIds, k \in Kinds : StartDelete(c, k, Baseline) /\ UNCHANGED <<ajax, page>>
    \/ \E c \in CallIds : Release(c) /\ UNCHANGED <<ajax, page>>
    \/ \E c \in CallIds : InitRejected(c) /\ UNCHANGED <<ajax, page>>
    \/ \E i \in 1..Len(txq) : CommitAdd(i) /\ UNCHANGED <<ajax, page>>
    \/ \E i \in 1..Len(txq) : CommitMeta(i) /\ UNCHANGED <<ajax, page>>
    \/ \E i \in 1..Len(txq) : CommitGet(i) /\ UNCHANGED <<ajax, page>>
    \/ \E i \in 1..Len(txq) : UpdateRead(i) /\ UNCHANGED <<ajax, page>>
    \/ \E i \in 1..Len(txq) : CommitPut(i) /\ UNCHANGED <<ajax, page>>
    \/ \E i \in 1..Len(txq) : CommitDelete(i) /\ UNCHANGED <<ajax, page>>
    \/ \E i \in 1..Len(txq) : CommitCascade(i) /\ UNCHANGED <<ajax, page>>
    \/ OpenSuccess /\ UNCHANGED <<ajax, page>>
    \/ OpenError /\ UNCHANGED <<ajax, page>>
    \/ LoadMetadata /\ UNCHANGED <<ajax, page>>

ReadSpec == Init /\ [][ReadNext]_vars

\* Updates while the clock advances, with patches that name the id, a field
\* the record has, a field it may not have, and created.
PatchTime == MaxClock + 1
UpdatePatches ==
    {{<<"id", Baseline + 1>>, <<"name", "B">>},
     {<<"created", PatchTime>>}}

UpdateNext ==
    \/ \E c \in CallIds, k \in Kinds :
          \E op \in {"create", "update"} : Invoke(c, op, k) /\ UNCHANGED <<ajax, page>>
    \/ \E c \in CallIds, k \in Kinds : StartCreate(c, k, {}, now) /\ UNCHANGED <<ajax, page>>
    \/ \E c \in CallIds, k \in Kinds, d \in UpdatePatches :
          StartUpdate(c, k, Baseline, d) /\ UNCHANGED <<ajax, page>>
    \/ \E c \in CallIds : Release(c) /\ UNCHANGED <<ajax, page>>
    \/ \E c \in CallIds : InitRejected(c) /\ UNCHANGED <<ajax, page>>
    \/ \E i \in 1..Len(txq) : CommitAdd(i) /\ UNCHANGED <<ajax, page>>
    \/ \E i \in 1..Len(txq) : CommitMeta(i) /\ UNCHANGED <<ajax, page>>
    \/ \E i \in 1..Len(txq) : UpdateRead(i) /\ UNCHANGED <<ajax, page>>
    \/ \E i \in 1..Len(txq) : CommitPut(i) /\ UNCHANGED <<ajax, page>>
    \/ OpenSuccess /\ UNCHANGED <<ajax, page>>
    \/ OpenError /\ UNCHANGED <<ajax, page>>
    \/ LoadMetadata /\ UNCHANGED <<ajax, page>>
    \/ Tick /\ UNCHANGED <<ajax, page>>

UpdateSpec == Init /\ [][UpdateNext]_vars

\* The shim over the engine: every call is made through a shim function.
Registrations == {{}, {"load", "error"}}

ShimNext ==
    \/ \E c \in CallIds, regs \in Registrations : projectCreate(c, regs)
    \/ \E c \in CallIds, regs \in Registrations : projectGet(c, Baseline, regs)
    \/ \E c \in CallIds, regs \in Registrations : projectTransfer(c, Baseline, regs)
    \/ \E c \in CallIds, regs \in Registrations : projectImage(c, regs)
    \/ \E c \in CallIds, regs \in Registrations : projectImport(c, regs)
    \/ \E c \in CallIds, regs \in Registrations : projectUnlock(c, regs)
    \/ \E c \in CallIds : ReaderLoad(c)
    \/ \E c \in CallIds : Resume(c)
    \/ \E c \in CallIds, event \in {"load", "error"} : On(c, event)
    \/ \E c \in CallIds : Execute(c)
    \/ \E c \in CallIds : Timeout(c)
    \/ \E c \in CallIds : ShimRelease(c)
    \/ \E c \in CallIds : InitRejected(c) /\ UNCHANGED <<ajax, page>>
    \/ \E i \in 1..Len(txq) : CommitAdd(i) /\ UNCHANGED <<ajax, page>>
    \/ \E i \in 1..Len(txq) : CommitMeta(i) /\ UNCHANGED <<ajax, page>>
    \/ \E i \in 1..Len(txq) : CommitGet(i) /\ UNCHANGED <<ajax, page>>
    \/ \E i \in 1..Len(txq) : UpdateRead(i) /\ UNCHANGED <<ajax, page>>
    \/ \E i \in 1..Len(txq) : CommitPut(i) /\ UNCHANGED <<ajax, page>>
    \/ OpenSuccess /\ UNCHANGED <<ajax, page>>
    \/ OpenError /\ UNCHANGED <<ajax, page>>
    \/ LoadMetadata /\ UNCHANGED <<ajax, page>>

ShimSpec == Init /\ [][ShimNext]_vars

\* The adapter by itself: calls whose promise is settled when the adapter is
\* constructed (projectUnlock, projectImport without data) and projectGet, with
\* on() called at any time and any number of times.
AdapterNext ==
    \/ \E c \in CallIds, regs \in Registrations : projectGet(c, Baseline, regs)
    \/ \E c \in CallIds, regs \in Registrations : projectImport(c, regs)
    \/ \E c \in CallIds, regs \in Registrations : projectUnlock(c, regs)
    \/ \E c \in CallIds : calls[c].pc = "init" /\ StartGet(c, "project", Baseline)
                              /\ UNCHANGED <<ajax, page>>
    \/ \E c \in CallIds, event \in {"load", "error"} : On(c, event)
    \/ \E c \in CallIds, event \in {"load", "error"} : OnAgain(c, event)
    \/ \E c \in CallIds : Execute(c)
    \/ \E c \in CallIds : Timeout(c)
    \/ \E c \in CallIds : ShimRelease(c)
    \/ \E c \in CallIds : InitRejected(c) /\ UNCHANGED <<ajax, page>>
    \/ \E i \in 1..Len(txq) : CommitGet(i) /\ UNCHANGED <<ajax, page>>
    \/ OpenSuccess /\ UNCHANGED <<ajax, page>>
    \/ OpenError /\ UNCHANGED <<ajax, page>>
    \/ LoadMetadata /\ UNCHANGED <<ajax, page>>

AdapterSpec == Init /\ [][AdapterNext]_vars

\* Export and import.  The store the page finds was left by an earlier visit:
\* PortStores are stores that awaited creates and deletes leave.
ProjectA == NewRecord("project", Baseline, {<<"name", "A">>}, 0, 0)
Child(k, id, parent) ==
    NewRecord(k, id, {<<"projectId", Baseline>>} \cup {<<"parent", p>> : p \in parent}, 0, 0)

\* createProject({name:'A'}), createAsset({projectId}), createScene({projectId})
StoreOne ==
    [project |-> Put(EmptyTable, ProjectA),
     asset |-> Put(EmptyTable, Child("asset", Baseline, {})),
     scene |-> Put(EmptyTable, Child("scene", Baseline, {}))]

\* createProject({name:'A'}), three createAsset, the third under the second,
\* then deleteAsset of the first
StoreTree ==
    [project |-> Put(EmptyTable, ProjectA),
     asset |-> Put(Put(EmptyTable, Child("asset", Baseline + 1, {})),
                   Child("asset", Baseline + 2, {{Baseline + 1}})),
     scene |-> EmptyTable]

\* createProject({name:'A'}), createAsset on master and on dev for the project,
\* createAsset({}) (projectId 0), createScene on dev for the project
StoreMixed ==
    [project |-> Put(EmptyTable, ProjectA),
     asset |-> Put(Put(Put(EmptyTable, Child("asset", Baseline, {})),
                       NewRecord("asset", Baseline + 1,
                                 {<<"projectId", Baseline>>, <<"branchId", "dev">>}, 0, 0)),
                   NewRecord("asset", Baseline + 2, {}, 0, 0)),
     scene |-> Put(EmptyTable,
                   NewRecord("scene", Baseline,
                             {<<"projectId", Baseline>>, <<"branchId", "dev">>}, 0, 0))]

PortStores == {StoreOne, StoreTree, StoreMixed}

\* the ids issued so far in a store: those stored and those deleted since
IssuedIn(t, k) ==
    IF DOMAIN t[k] = {} THEN {}
    ELSE Baseline..(CHOOSE m \in DOMAIN t[k] : \A i \in DOMAIN t[k] : i <= m)

PortInit ==
    /\ tables \in PortStores
    /\ meta = [k \in Kinds |-> Baseline + Cardinality(IssuedIn(tables, k))]
    /\ db = FALSE
    /\ initPromise = "null"
    /\ nextId = [k \in Kinds |-> Baseline]
    /\ now = 0
    /\ calls = [c \in CallIds |-> Idle]
    /\ txq = <<>>
    /\ returned = [k \in Kinds |-> IssuedIn(tables, k)]
    /\ lastIssued = [k \in Kinds |-> 0]
    /\ reloaded = TRUE
    /\ ops = 0
    /\ ajax = [c \in CallIds |-> NoAjax]
    /\ page = NoPage

\* the snapshots a caller holds: those returned by exportProject
Held(b) == IF calls[b].op = "export" /\ calls[b].pc = "resolved" THEN calls[b].res ELSE {}

\* no operation is in flight: every caller has awaited what it called
Quiet ==
    \A c \in CallIds :
        calls[c].pc \in {"idle", "resolved", "rejected"} /\ calls[c].job = NoJob

\* exportProject, importProject of a held snapshot and a rename are called,
\* when q holds
CopyCalls(q) ==
    \/ \E c \in CallIds : q /\ Invoke(c, "export", "none") /\ UNCHANGED <<ajax, page>>
    \/ \E c \in CallIds : q /\ Invoke(c, "update", "project") /\ UNCHANGED <<ajax, page>>
    \/ \E c \in CallIds : q /\ StartExport(c, Baseline) /\ UNCHANGED <<ajax, page>>
    \/ \E c \in CallIds, b \in CallIds :
          \E data \in Held(b) : q /\ StartImport(c, data) /\ UNCHANGED <<ajax, page>>
    \/ \E c \in CallIds :
          q /\ StartUpdate(c, "project", Baseline, {<<"name", "">>}) /\ UNCHANGED <<ajax, page>>

\* deleteProject and clearAll are called, when q holds
WipeCalls(q) ==
    \/ \E c \in CallIds : q /\ Invoke(c, "clearAll", "none") /\ UNCHANGED <<ajax, page>>
    \/ \E c \in CallIds : q /\ Invoke(c, "delete", "project") /\ UNCHANGED <<ajax, page>>
    \/ \E c \in CallIds : q /\ StartClear(c) /\ UNCHANGED <<ajax, page>>
    \/ \E c \in CallIds : q /\ StartDelete(c, "project", Baseline) /\ UNCHANGED <<ajax, page>>

\* what the calls of CopyCalls do after they were called
CopySteps ==
    \/ \E c \in CallIds :
          calls[c].job.op = "export"
              /\ StartGet(c, "project", calls[c].id) /\ UNCHANGED <<ajax, page>>
    \/ \E c \in CallIds, k \in {"asset", "scene"} :
          calls[c].job.op = "export"
              /\ StartList(c, k, calls[c].id, {}) /\ UNCHANGED <<ajax, page>>
    \/ \E c \in CallIds, k \in Kinds :
          calls[c].job.op = "import"
              /\ StartCreate(c, k, calls[c].data, now) /\ UNCHANGED <<ajax, page>>
    \/ \E c \in CallIds :
          calls[c].pc = "init" /\ calls[c].job = NoJob
              /\ StartUpdate(c, "project", Baseline, {<<"name", "">>}) /\ UNCHANGED <<ajax, page>>
    \/ \E c \in CallIds :
          calls[c].pc = "init" /\ StartExport(c, Baseline) /\ UNCHANGED <<ajax, page>>
    \/ \E c \in CallIds : ExportStep(c) /\ UNCHANGED <<ajax, page>>
    \/ \E c \in CallIds : ImportStep(c) /\ UNCHANGED <<ajax, page>>
    \/ \E c \in CallIds : Release(c) /\ UNCHANGED <<ajax, page>>
    \/ \E c \in CallIds : InitRejected(c) /\ UNCHANGED <<ajax, page>>
    \/ \E i \in 1..Len(txq) : CommitAdd(i) /\ UNCHANGED <<ajax, page>>
    \/ \E i \in 1..Len(txq) : CommitMeta(i) /\ UNCHANGED <<ajax, page>>
    \/ \E i \in 1..Len(txq) : CommitGet(i) /\ UNCHANGED <<ajax, page>>
    \/ \E i \in 1..Len(txq) : CommitList(i) /\ UNCHANGED <<ajax, page>>
    \/ \E i \in 1..Len(txq) : UpdateRead(i) /\ UNCHANGED <<ajax, page>>
    \/ \E i \in 1..Len(txq) : CommitPut(i) /\ UNCHANGED <<ajax, page>>
    \/ OpenSuccess /\ UNCHANGED <<ajax, page>>
    \/ OpenError /\ UNCHANGED <<ajax, page>>
    \/ LoadMetadata /\ UNCHANGED <<ajax, page>>

\* what the calls of WipeCalls do after they were called
WipeSteps ==
    \/ \E c \in CallIds :
          calls[c].pc = "init" /\ StartClear(c) /\ UNCHANGED <<ajax, page>>
    \/ \E c \in CallIds :
          calls[c].pc = "init" /\ StartDelete(c, "project", Baseline) /\ UNCHANGED <<ajax, page>>
    \/ \E i \in 1..Len(txq) : CommitCascade(i) /\ UNCHANGED <<ajax, page>>
    \/ \E i \in 1..Len(txq) : CommitClear(i) /\ UNCHANGED <<ajax, page>>

\* copies of a project, each call awaited before the next is made
CopyNext == CopyCalls(Quiet) \/ CopySteps

CopySpec == PortInit /\ [][CopyNext]_vars

\* the same with deleteProject and clearAll
AwaitNext == CopyCalls(Quiet) \/ WipeCalls(Quiet) \/ CopySteps \/ WipeSteps

AwaitSpec == PortInit /\ [][AwaitNext]_vars

\* importProject is called while the database is still being opened
ImportEarly ==
    \/ \E c \in CallIds : Invoke(c, "import", "none") /\ UNCHANGED <<ajax, page>>
    \/ \E c \in CallIds, b \in CallIds :
          \E data \in Held(b) :
              calls[c].pc = "init" /\ StartImport(c, data) /\ UNCHANGED <<ajax, page>>

\* copies, deleteProject and clearAll, called at any time
PortNext ==
    CopyCalls(TRUE) \/ WipeCalls(TRUE) \/ ImportEarly \/ CopySteps \/ WipeSteps

PortSpec == PortInit /\ [][PortNext]_vars

\* opening the database: init and every public operation, called at any time
SnapshotA == [project |-> {ProjectA}, assets |-> <<>>, scenes |-> <<>>, exportedAt |-> 0]

OpenOps ==
    {<<"init", "none">>, <<"create", "project">>, <<"get", "project">>,
     <<"update", "project">>, <<"delete", "asset">>, <<"list", "scene">>,
     <<"export", "none">>, <<"import", "none">>, <<"clearAll", "none">>}

OpenNext ==
    \/ \E c \in CallIds, o \in OpenOps : Invoke(c, o[1], o[2]) /\ UNCHANGED <<ajax, page>>
    \/ \E c \in CallIds : InitDone(c) /\ UNCHANGED <<ajax, page>>
    \/ \E c \in CallIds : InitRejected(c) /\ UNCHANGED <<ajax, page>>
    \/ OpenSuccess /\ UNCHANGED <<ajax, page>>
    \/ OpenError /\ UNCHANGED <<ajax, page>>
    \/ LoadMetadata /\ UNCHANGED <<ajax, page>>
    \/ \E c \in CallIds, k \in Kinds :
          (k = "project" \/ calls[c].job.op = "import")
              /\ StartCreate(c, k, calls[c].data, now) /\ UNCHANGED <<ajax, page>>
    \/ \E c \in CallIds : StartGet(c, "project", Baseline) /\ UNCHANGED <<ajax, page>>
    \/ \E c \in CallIds : StartUpdate(c, "project", Baseline, {}) /\ UNCHANGED <<ajax, page>>
    \/ \E c \in CallIds : StartDelete(c, "asset", Baseline) /\ UNCHANGED <<ajax, page>>
    \/ \E c \in CallIds, k \in {"asset", "scene"} :
          (k = "scene" \/ calls[c].job.op = "export")
              /\ StartList(c, k, Baseline, {}) /\ UNCHANGED <<ajax, page>>
    \/ \E c \in CallIds : StartExport(c, Baseline) /\ UNCHANGED <<ajax, page>>
    \/ \E c \in CallIds : StartImport(c, SnapshotA) /\ UNCHANGED <<ajax, page>>
    \/ \E c \in CallIds : StartClear(c) /\ UNCHANGED <<ajax, page>>
    \/ \E c \in CallIds : ExportStep(c) /\ UNCHANGED <<ajax, page>>
    \/ \E c \in CallIds : ImportStep(c) /\ UNCHANGED <<ajax, page>>
    \/ \E c \in CallIds : Release(c) /\ UNCHANGED <<ajax, page>>
    \/ \E i \in 1..Len(txq) : CommitAdd(i) /\ UNCHANGED <<ajax, page>>
    \/ \E i \in 1..Len(txq) : CommitMeta(i) /\ UNCHANGED <<ajax, page>>
    \/ \E i \in 1..Len(txq) : CommitGet(i) /\ UNCHANGED <<ajax, page>>
    \/ \E i \in 1..Len(txq) : UpdateRead(i) /\ UNCHANGED <<ajax, page>>
    \/ \E i \in 1..Len(txq) : CommitPut(i) /\ UNCHANGED <<ajax, page>>
    \/ \E i \in 1..Len(txq) : CommitDelete(i) /\ UNCHANGED <<ajax, page>>
    \/ \E i \in 1..Len(txq) : CommitList(i) /\ UNCHANGED <<ajax, page>>
    \/ \E i \in 1..Len(txq) : CommitClear(i) /\ UNCHANGED <<ajax, page>>

OpenSpec == Init /\ [][OpenNext]_vars

\* deleting and creating assets and scenes in a store that holds some
ChildOf == {<<"projectId", Baseline>>, <<"parent", Baseline + 1>>}

DropNext ==
    \/ \E c \in CallIds, k \in {"asset", "scene"} :
          \E op \in {"create", "delete"} : Invoke(c, op, k) /\ UNCHANGED <<ajax, page>>
    \/ \E c \in CallIds, k \in {"asset", "scene"} :
          StartCreate(c, k, ChildOf, now) /\ UNCHANGED <<ajax, page>>
    \/ \E c \in CallIds, k \in {"asset", "scene"}, id \in ArgIds :
          StartDelete(c, k, id) /\ UNCHANGED <<ajax, page>>
    \/ \E c \in CallIds : Release(c) /\ UNCHANGED <<ajax, page>>
    \/ \E c \in CallIds : InitRejected(c) /\ UNCHANGED <<ajax, page>>
    \/ \E i \in 1..Len(txq) : CommitAdd(i) /\ UNCHANGED <<ajax, page>>
    \/ \E i \in 1..Len(txq) : CommitMeta(i) /\ UNCHANGED <<ajax, page>>
    \/ \E i \in 1..Len(txq) : CommitDelete(i) /\ UNCHANGED <<ajax, page>>
    \/ OpenSuccess /\ UNCHANGED <<ajax, page>>
    \/ OpenError /\ UNCHANGED <<ajax, page>>
    \/ LoadMetadata /\ UNCHANGED <<ajax, page>>

DropSpec == PortInit /\ [][DropNext]_vars

\* importing into a store whose asset counter is behind: asset 1001 is stored
\* and Metadata is empty (two createAsset({}) whose record transactions completed
\* and whose Metadata transactions did not before the page was reloaded, then
\* deleteAsset(1000)), so the second asset an import creates is refused.
StoreStale ==
    [project |-> EmptyTable,
     asset |-> Put(EmptyTable, NewRecord("asset", Baseline + 1, {}, 0, 0)),
     scene |-> EmptyTable]

StaleInit ==
    /\ tables = StoreStale
    /\ meta = EmptyMeta
    /\ db = FALSE
    /\ initPromise = "null"
    /\ nextId = [k \in Kinds |-> Baseline]
    /\ now = 0
    /\ calls = [c \in CallIds |-> Idle]
    /\ txq = <<>>
    /\ returned = [k \in Kinds |-> {}]
    /\ lastIssued = [k \in Kinds |-> 0]
    /\ reloaded = TRUE
    /\ ops = 0
    /\ ajax = [c \in CallIds |-> NoAjax]
    /\ page = NoPage

SnapshotTwo ==
    [project |-> {ProjectA},
     assets |-> <<Child("asset", Baseline, {}), Child("asset", Baseline + 1, {})>>,
     scenes |-> <<Child("scene", Baseline, {})>>,
     exportedAt |-> 0]

FailNext ==
    \/ \E c \in CallIds : Invoke(c, "import", "none") /\ UNCHANGED <<ajax, page>>
    \/ \E c \in CallIds, data \in {SnapshotA, SnapshotTwo} :
          StartImport(c, data) /\ UNCHANGED <<ajax, page>>
    \/ \E c \in CallIds, k \in Kinds :
          calls[c].job.op = "import"
              /\ StartCreate(c, k, calls[c].data, now) /\ UNCHANGED <<ajax, page>>
    \/ \E c \in CallIds : ImportStep(c) /\ UNCHANGED <<ajax, page>>
    \/ \E c \in CallIds : Release(c) /\ UNCHANGED <<ajax, page>>
    \/ \E c \in CallIds : InitRejected(c) /\ UNCHANGED <<ajax, page>>
    \/ \E i \in 1..Len(txq) : CommitAdd(i) /\ UNCHANGED <<ajax, page>>
    \/ \E i \in 1..Len(txq) : CommitMeta(i) /\ UNCHANGED <<ajax, page>>
    \/ OpenSuccess /\ UNCHANGED <<ajax, page>>
    \/ OpenError /\ UNCHANGED <<ajax, page>>
    \/ LoadMetadata /\ UNCHANGED <<ajax, page>>

FailSpec == StaleInit /\ [][FailNext]_vars

\* listing: listProjects, and listAssets / listScenes with and without a branch
\* argument, while assets and scenes are created under a parent
ListArgs == {{}, {""}, {"dev"}, {"master"}}
ListIds == {0, Baseline}

ListNext ==
    \/ \E c \in CallIds, k \in Kinds : Invoke(c, "list", k) /\ UNCHANGED <<ajax, page>>
    \/ \E c \in CallIds, k \in {"asset", "scene"} :
          Invoke(c, "create", k) /\ UNCHANGED <<ajax, page>>
    \/ \E c \in CallIds, k \in {"asset", "scene"}, pid \in ListIds, br \in ListArgs :
          StartList(c, k, pid, br) /\ UNCHANGED <<ajax, page>>
    \/ \E c \in CallIds : StartList(c, "project", 0, {}) /\ UNCHANGED <<ajax, page>>
    \/ \E c \in CallIds, k \in {"asset", "scene"} :
          StartCreate(c, k, ChildOf, now) /\ UNCHANGED <<ajax, page>>
    \/ \E c \in CallIds : Release(c) /\ UNCHANGED <<ajax, page>>
    \/ \E c \in CallIds : InitRejected(c) /\ UNCHANGED <<ajax, page>>
    \/ \E i \in 1..Len(txq) : CommitAdd(i) /\ UNCHANGED <<ajax, page>>
    \/ \E i \in 1..Len(txq) : CommitMeta(i) /\ UNCHANGED <<ajax, page>>
    \/ \E i \in 1..Len(txq) : CommitList(i) /\ UNCHANGED <<ajax, page>>
    \/ OpenSuccess /\ UNCHANGED <<ajax, page>>
    \/ OpenError /\ UNCHANGED <<ajax, page>>
    \/ LoadMetadata /\ UNCHANGED <<ajax, page>>

ListSpec == PortInit /\ [][ListNext]_vars

\* the Projects table: createProject, importProject, deleteProject, clearAll
\* and listProjects, called at any time
ProjectsNext ==
    \/ \E c \in CallIds :
          \E op \in {"create", "delete", "list"} :
              Invoke(c, op, "project") /\ UNCHANGED <<ajax, page>>
    \/ \E c \in CallIds : Invoke(c, "clearAll", "none") /\ UNCHANGED <<ajax, page>>
    \/ \E c \in CallIds : StartCreate(c, "project", calls[c].data, now) /\ UNCHANGED <<ajax, page>>
    \/ \E c \in CallIds : StartImport(c, SnapshotA) /\ UNCHANGED <<ajax, page>>
    \/ \E c \in CallIds : ImportStep(c) /\ UNCHANGED <<ajax, page>>
    \/ \E c \in CallIds, id \in ArgIds :
          StartDelete(c, "project", id) /\ UNCHANGED <<ajax, page>>
    \/ \E c \in CallIds : StartList(c, "project", 0, {}) /\ UNCHANGED <<ajax, page>>
    \/ \E c \in CallIds : StartClear(c) /\ UNCHANGED <<ajax, page>>
    \/ \E c \in CallIds : Release(c) /\ UNCHANGED <<ajax, page>>
    \/ \E c \in CallIds : InitRejected(c) /\ UNCHANGED <<ajax, page>>
    \/ \E i \in 1..Len(txq) : CommitAdd(i) /\ UNCHANGED <<ajax, page>>
    \/ \E i \in 1..Len(txq) : CommitMeta(i) /\ UNCHANGED <<ajax, page>>
    \/ \E i \in 1..Len(txq) : CommitCascade(i) /\ UNCHANGED <<ajax, page>>
    \/ \E i \in 1..Len(txq) : CommitList(i) /\ UNCHANGED <<ajax, page>>
    \/ \E i \in 1..Len(txq) : CommitClear(i) /\ UNCHANGED <<ajax, page>>
    \/ OpenSuccess /\ UNCHANGED <<ajax, page>>
    \/ OpenError /\ UNCHANGED <<ajax, page>>
    \/ LoadMetadata /\ UNCHANGED <<ajax, page>>

ProjectsSpec == Init /\ [][ProjectsNext]_vars

\* creates under a running clock: the second `new Date()` of the object
\* literal reads the clock at or after the first
ClockNext ==
    \/ \E c \in CallIds, k \in Kinds : Invoke(c, "create", k) /\ UNCHANGED <<ajax, page>>
    \/ \E c \in CallIds, k \in Kinds, t2 \in 0..MaxClock :
          StartCreate(c, k, {}, t2) /\ UNCHANGED <<ajax, page>>
    \/ \E c \in CallIds : Release(c) /\ UNCHANGED <<ajax, page>>
    \/ \E c \in CallIds : InitRejected(c) /\ UNCHANGED <<ajax, page>>
    \/ \E i \in 1..Len(txq) : CommitAdd(i) /\ UNCHANGED <<ajax, page>>
    \/ \E i \in 1..Len(txq) : CommitMeta(i) /\ UNCHANGED <<ajax, page>>
    \/ OpenSuccess /\ UNCHANGED <<ajax, page>>
    \/ OpenError /\ UNCHANGED <<ajax, page>>
    \/ LoadMetadata /\ UNCHANGED <<ajax, page>>
    \/ Tick /\ UNCHANGED <<ajax, page>>

ClockSpec == Init /\ [][ClockNext]_vars

\* Promise.all over createX calls of one kind: every call of the array is made
\* before any of them is resumed, each running up to its `await this.init()`
PromiseAll(k) ==
    /\ ops + Cardinality(CallIds) <= MaxOps
    /\ \A c \in CallIds : calls[c].pc = "idle"
    /\ calls' = [c \in CallIds |->
                    [Idle EXCEPT !.op = "create", !.kind = k, !.pc = "init"]]
    /\ initPromise' = Shared(initPromise)
    /\ ops' = ops + Cardinality(CallIds)
    /\ UNCHANGED <<tables, meta, db, nextId, now, txq, returned, lastIssued, reloaded>>

\* batches of creates: the calls of a batch are made together and resumed in
\* the order they were made (the order of their awaits on the shared promise)
BulkNext ==
    \/ \E k \in Kinds : PromiseAll(k) /\ UNCHANGED <<ajax, page>>
    \/ \E c \in CallIds, k \in Kinds :
          /\ calls[c].pc = "init"
          /\ \A b \in 1..(c - 1) : calls[b].pc # "init"
          /\ StartCreate(c, k, {}, now) /\ UNCHANGED <<ajax, page>>
    \/ \E c \in CallIds : Release(c) /\ UNCHANGED <<ajax, page>>
    \/ \E c \in CallIds : InitRejected(c) /\ UNCHANGED <<ajax, page>>
    \/ \E i \in 1..Len(txq) : CommitAdd(i) /\ UNCHANGED <<ajax, page>>
    \/ \E i \in 1..Len(txq) : CommitMeta(i) /\ UNCHANGED <<ajax, page>>
    \/ OpenSuccess /\ UNCHANGED <<ajax, page>>
    \/ OpenError /\ UNCHANGED <<ajax, page>>
    \/ LoadMetadata /\ UNCHANGED <<ajax, page>>
    \/ Tick /\ UNCHANGED <<ajax, page>>

BulkSpec == Init /\ [][BulkNext]_vars

\* deleteProject, with gets and lists of the project's records made by other
\* callers at any time, in a store that holds the project; the transaction of
\* deleteProject may fail
CascadeNext ==
    \/ \E c \in CallIds, o \in {<<"delete", "project">>, <<"get", "project">>,
                                <<"list", "asset">>, <<"list", "scene">>} :
          Invoke(c, o[1], o[2]) /\ UNCHANGED <<ajax, page>>
    \/ \E c \in CallIds, id \in ArgIds : StartDelete(c, "project", id) /\ UNCHANGED <<ajax, page>>
    \/ \E c \in CallIds : StartGet(c, "project", Baseline) /\ UNCHANGED <<ajax, page>>
    \/ \E c \in CallIds, k \in {"asset", "scene"} :
          StartList(c, k, Baseline, {}) /\ UNCHANGED <<ajax, page>>
    \/ \E c \in CallIds : Release(c) /\ UNCHANGED <<ajax, page>>
    \/ \E c \in CallIds : InitRejected(c) /\ UNCHANGED <<ajax, page>>
    \/ \E i \in 1..Len(txq) : CommitCascade(i) /\ UNCHANGED <<ajax, page>>
    \/ \E i \in 1..Len(txq) : AbortCascade(i) /\ UNCHANGED <<ajax, page>>
    \/ \E i \in 1..Len(txq) : CommitGet(i) /\ UNCHANGED <<ajax, page>>
    \/ \E i \in 1..Len(txq) : CommitList(i) /\ UNCHANGED <<ajax, page>>
    \/ OpenSuccess /\ UNCHANGED <<ajax, page>>
    \/ OpenError /\ UNCHANGED <<ajax, page>>
    \/ LoadMetadata /\ UNCHANGED <<ajax, page>>

CascadeSpec == PortInit /\ [][CascadeNext]_vars

\* what exportProject(1000) resolves with in store S
SnapshotOf(S) ==
    [project |-> Lookup(S["project"], Baseline),
     assets |-> SortById(ByProject(S["asset"], Baseline)),
     scenes |-> SortById(ByProject(S["scene"], Baseline)),
     exportedAt |-> 0]

\* no importProject is in flight
NoImport == \A c \in CallIds : calls[c].op # "import" /\ calls[c].job.op # "import"

\* imports of exported snapshots, one at a time, while assets are created by
\* calls of the other caller at any time
OrderNext ==
    \/ \E c \in CallIds : NoImport /\ Invoke(c, "import", "none") /\ UNCHANGED <<ajax, page>>
    \/ \E c \in CallIds : Invoke(c, "create", "asset") /\ UNCHANGED <<ajax, page>>
    \/ \E c \in CallIds, S \in PortStores :
          (NoImport \/ calls[c].pc = "init")
              /\ StartImport(c, SnapshotOf(S)) /\ UNCHANGED <<ajax, page>>
    \/ \E c \in CallIds, k \in Kinds :
          calls[c].job.op = "import"
              /\ StartCreate(c, k, calls[c].data, now) /\ UNCHANGED <<ajax, page>>
    \/ \E c \in CallIds :
          calls[c].job = NoJob /\ StartCreate(c, "asset", {}, now) /\ UNCHANGED <<ajax, page>>
    \/ \E c \in CallIds : ImportStep(c) /\ UNCHANGED <<ajax, page>>
    \/ \E c \in CallIds : Release(c) /\ UNCHANGED <<ajax, page>>
    \/ \E c \in CallIds : InitRejected(c) /\ UNCHANGED <<ajax, page>>
    \/ \E i \in 1..Len(txq) : CommitAdd(i) /\ UNCHANGED <<ajax, page>>
    \/ \E i \in 1..Len(txq) : CommitMeta(i) /\ UNCHANGED <<ajax, page>>
    \/ OpenSuccess /\ UNCHANGED <<ajax, page>>
    \/ OpenError /\ UNCHANGED <<ajax, page>>
    \/ LoadMetadata /\ UNCHANGED <<ajax, page>>

OrderSpec == PortInit /\ [][OrderNext]_vars

\* a file with asset and scene entries and no project
SnapshotBare ==
    [project |-> {},
     assets |-> <<Child("asset", Baseline, {})>>,
     scenes |-> <<Child("scene", Baseline, {})>>,
     exportedAt |-> 0]

\* imports of a snapshot without a project, while projects are created by
\* other calls
BareNext ==
    \/ \E c \in CallIds : Invoke(c, "import", "none") /\ UNCHANGED <<ajax, page>>
    \/ \E c \in CallIds : Invoke(c, "create", "project") /\ UNCHANGED <<ajax, page>>
    \/ \E c \in CallIds : StartImportBare(c, SnapshotBare) /\ UNCHANGED <<ajax, page>>
    \/ \E c \in CallIds : CreateThrows(c) /\ UNCHANGED <<ajax, page>>
    \/ \E c \in CallIds :
          calls[c].job = NoJob /\ StartCreate(c, "project", {}, now) /\ UNCHANGED <<ajax, page>>
    \/ \E c \in CallIds : ImportStep(c) /\ UNCHANGED <<ajax, page>>
    \/ \E c \in CallIds : Release(c) /\ UNCHANGED <<ajax, page>>
    \/ \E c \in CallIds : InitRejected(c) /\ UNCHANGED <<ajax, page>>
    \/ \E i \in 1..Len(txq) : CommitAdd(i) /\ UNCHANGED <<ajax, page>>
    \/ \E i \in 1..Len(txq) : CommitMeta(i) /\ UNCHANGED <<ajax, page>>
    \/ OpenSuccess /\ UNCHANGED <<ajax, page>>
    \/ OpenError /\ UNCHANGED <<ajax, page>>
    \/ LoadMetadata /\ UNCHANGED <<ajax, page>>

BareSpec == PortInit /\ [][BareNext]_vars

\* the page: interceptRestApi is called once, the editor loads and the
\* offline flag is set at any time, before or after
PageInit ==
    /\ tables = [k \in Kinds |-> EmptyTable]
    /\ meta = EmptyMeta
    /\ db = FALSE
    /\ initPromise = "null"
    /\ nextId = [k \in Kinds |-> Baseline]
    /\ now = 0
    /\ calls = [c \in CallIds |-> Idle]
    /\ txq = <<>>
    /\ returned = [k \in Kinds |-> {}]
    /\ lastIssued = [k \in Kinds |-> 0]
    /\ reloaded = FALSE
    /\ ops = 0
    /\ ajax = [c \in CallIds |-> NoAjax]
    /\ page \in {[NoPage EXCEPT !.offline = o] : o \in BOOLEAN}

PageNext ==
    \/ interceptRestApi
    \/ EditorLoads
    \/ SetOffline
    \/ Elapse
    \/ checkEditorApi
    \/ StopChecking

PageSpec == PageInit /\ [][PageNext]_vars

\* ------------------------------------------------------------------ claims
\* Call c is issued an identifier of kind k in this step.
IssuesId(c, k) ==
    /\ calls[c].pc \in {"idle", "init"}
    /\ calls'[c].pc = "awaitMeta" /\ calls'[c].op = "create" /\ calls'[c].kind = k

\* A create of kind k resolves in this step.
CreateResolves(c, k) ==
    /\ calls[c].pc # "resolved"
    /\ calls'[c].pc = "resolved" /\ calls'[c].op = "create" /\ calls'[c].kind = k

TheRec(call) == CHOOSE r \in call.rec : TRUE
TheRes(call) == CHOOSE r \in call.res : TRUE

\* C1: the id a create is issued is strictly greater than the last id this
\* process issued for the kind, and the id a create returns is the one it was
\* issued and was never returned by an earlier create of the kind, whatever
\* creates, updates, deletes, delete-cascades and reloads came before.
C1_FreshIds ==
    [][\A c \in CallIds, k \in Kinds :
          /\ IssuesId(c, k) => TheRec(calls'[c]).id > lastIssued[k]
          /\ CreateResolves(c, k) =>
                /\ TheRes(calls'[c]).id = TheRec(calls[c]).id
                /\ TheRes(calls'[c]).id \notin returned[k]]_vars

\* a second create has returned after the record of the first was deleted
C1_Witness ==
    \E c \in CallIds, k \in Kinds :
        /\ calls[c].pc = "resolved" /\ calls[c].op = "create" /\ calls[c].kind = k
        /\ TheRes(calls[c]).id = Baseline + 1
        /\ Baseline \in returned[k]
        /\ Baseline \notin DOMAIN tables[k]

\* C2: after a reload, the id a create is issued is strictly greater than every
\* id a create of that kind returned before.
C2_CounterDurable ==
    [][\A c \in CallIds, k \in Kinds :
          (reloaded /\ IssuesId(c, k)) =>
              \A r \in returned[k] : TheRec(calls'[c]).id > r]_vars

\* a create was issued an id after a reload that followed a returned create
C2_Witness ==
    \E c \in CallIds, k \in Kinds :
        /\ reloaded
        /\ calls[c].pc = "awaitMeta" /\ calls[c].kind = k
        /\ TheRec(calls[c]).id = Baseline + 1
        /\ returned[k] = {Baseline}
        /\ k \in DOMAIN meta /\ meta[k] = Baseline + 1

\* Call c settles in this step as the operation op.
Settles(c, op) ==
    /\ calls[c].op = op
    /\ calls[c].pc \notin {"resolved", "rejected"}
    /\ calls'[c].pc \in {"resolved", "rejected"}

\* C3: when deleteProject(P) resolves, listAssets(P, b) and listScenes(P, b)
\* are empty for every branch argument b and with no branch argument, and
\* getProject(P) finds no record, whatever was stored before.
C3_CascadeEmpties ==
    [][\A c \in CallIds :
          (Settles(c, "delete") /\ calls[c].kind = "project"
              /\ calls'[c].pc = "resolved") =>
              /\ \A br \in {{}, {"master"}, {"dev"}} :
                    /\ ListOf(tables'["asset"], calls[c].id, br) = {}
                    /\ ListOf(tables'["scene"], calls[c].id, br) = {}
              /\ Lookup(tables'["project"], calls[c].id) = {}]_vars

\* a project, and then an asset of it, were created, and a deleteProject, the
\* third and last operation, has resolved with no asset left
C3_Witness ==
    \E c \in CallIds :
        /\ calls[c].op = "delete" /\ calls[c].kind = "project"
        /\ calls[c].pc = "resolved" /\ calls[c].id = Baseline
        /\ ops = 3
        /\ returned["project"] = {Baseline}
        /\ returned["asset"] # {}
        /\ DOMAIN tables["asset"] = {}

\* C4: every stored asset and every stored scene has the projectId of a stored
\* project.
C4_Referential ==
    \A k \in {"asset", "scene"} : \A r \in Records(tables[k]) :
        r.projectId \in DOMAIN tables["project"]

\* C5: a create that has not settled (resolved, or been failed by the store)
\* still has a transaction pending whose completion will settle it, so that it
\* settles once its transactions have completed, in whatever order.
C5_CreateResolves ==
    \A c \in CallIds :
        (calls[c].op = "create"
            /\ calls[c].pc \notin {"idle", "init", "resolved", "rejected"})
            => \E i \in 1..Len(txq) : txq[i].c = c

\* the value LocalAjax's promise of caller c resolved with
Value(c) == IF ajax[c].via = "image" THEN {[url |-> ImageUrl]} ELSE Result(calls[c])

\* C6: when the timer of a call fires, a resolved promise has the 'load'
\* handlers (if any) invoked with (200, value) and a rejected one has the
\* 'error' handlers (if any) invoked with (500, reason); nothing is invoked
\* before, nothing else is invoked then, and nothing is invoked afterwards.
C6_LoadOrError ==
    [][\A c \in CallIds :
          /\ (ajax[c].phase = "timer" /\ ajax'[c].phase = "emitted") =>
                /\ calls[c].pc \in {"resolved", "rejected"}
                /\ calls[c].pc = "resolved" =>
                      ajax'[c].invoked = IF "load" \in ajax[c].handlers
                                         THEN {<<"load", 200, Value(c)>>} ELSE {}
                /\ calls[c].pc = "rejected" =>
                      ajax'[c].invoked = IF "error" \in ajax[c].handlers
                                         THEN {<<"error", 500, calls[c].err>>} ELSE {}
          /\ (ajax[c].phase = "emitted" /\ ajax'[c].phase = "emitted") =>
                ajax'[c].invoked = ajax[c].invoked
          /\ ajax'[c].phase # "emitted" => ajax'[c].invoked = {}]_vars

\* a create through the shim had its 'load' handler invoked and an update of a
\* missing project had its 'error' handler invoked
C6_Witness ==
    \E c \in CallIds, b \in CallIds :
        /\ calls[c].op = "create" /\ ajax[c].phase = "emitted"
        /\ ajax[c].invoked = {<<"load", 200, calls[c].res>>}
        /\ calls[b].op = "update" /\ ajax[b].phase = "emitted"
        /\ ajax[b].invoked = {<<"error", 500, "notfound">>}

\* C7: a shim call that has neither emitted nor set its timer can still get
\* there: its promise is settled, or the engine call behind it has yet to be
\* made, waits for init, or has a transaction pending.
C7_CallbackDue ==
    \A c \in CallIds :
        ajax[c].phase = "awaiting" =>
            \/ PromiseOf(c)[1] # "pending"
            \/ calls[c].pc \in {"reader", "init"}
            \/ \E i \in 1..Len(txq) : txq[i].c = c

\* C8: with the store open, a get whose read finds the id not stored resolves
\* with no record, and an update whose read finds the id not stored rejects
\* with not-found, writes nothing to any table or counter and opens no
\* transaction.
C8_MissingId ==
    [][\A c \in CallIds :
          /\ (Settles(c, "get") /\ calls[c].pc = "awaitTx"
                /\ calls[c].id \notin DOMAIN tables[calls[c].kind]) =>
                calls'[c].pc = "resolved" /\ calls'[c].res = {}
          /\ (calls[c].op = "update" /\ calls[c].pc = "awaitGet"
                /\ calls'[c].pc # "awaitGet"
                /\ calls[c].id \notin DOMAIN tables[calls[c].kind]) =>
                /\ calls'[c].pc = "rejected" /\ calls'[c].err = "notfound"
                /\ tables' = tables /\ meta' = meta /\ nextId' = nextId
                /\ \A i \in 1..Len(txq') : txq'[i].c # c]_vars

\* an update of a missing id has rejected and a get of a missing id has
\* resolved with no record
C8_Witness ==
    \E c \in CallIds, b \in CallIds :
        /\ calls[c].op = "update" /\ calls[c].pc = "rejected" /\ calls[c].err = "notfound"
        /\ calls[b].op = "get" /\ calls[b].pc = "resolved" /\ calls[b].res = {}
        /\ calls[b].id \notin DOMAIN tables[calls[b].kind]

\* C9: the record an update builds from the record it read has the id of the
\* call, modified at the current time, the patch's value in every other field
\* the patch names and the read record's value in the rest; and that record is
\* what the update stores under the id and returns.
C9_ShallowMerge ==
    [][\A c \in CallIds :
          /\ (calls[c].op = "update" /\ calls[c].pc = "awaitGet"
                /\ calls'[c].pc = "awaitTx") =>
                LET old == tables[calls[c].kind][calls[c].id]
                    new == TheRec(calls'[c])
                    d == calls[c].data
                IN /\ DOMAIN new = DOMAIN old \cup Fields(d)
                   /\ new.id = calls[c].id
                   /\ new.modified = now
                   /\ \A f \in DOMAIN new \ {"id", "modified"} :
                         new[f] = IF Has(d, f) THEN Val(d, f) ELSE old[f]
          /\ (Settles(c, "update") /\ calls'[c].pc = "resolved") =>
                /\ Lookup(tables'[calls[c].kind], calls[c].id) = calls[c].rec
                /\ Result(calls'[c]) = calls[c].rec]_vars

\* an update whose patch names another id and a name has resolved, after the
\* clock advanced, and the record stored under its id has the patch's name
C9_Witness ==
    \E c \in CallIds :
        /\ calls[c].op = "update" /\ calls[c].pc = "resolved"
        /\ Has(calls[c].data, "id") /\ calls[c].id = Baseline
        /\ Baseline \in DOMAIN tables[calls[c].kind]
        /\ LET r == tables[calls[c].kind][Baseline]
           IN r.name = "B" /\ r.modified = MaxClock /\ r.created = 0
        /\ Baseline + 1 \notin DOMAIN tables[calls[c].kind]

\* C10: the created field of a record that stays stored never changes.
C10_CreatedImmutable ==
    [][\A k \in Kinds : \A id \in DOMAIN tables[k] \cap DOMAIN tables'[k] :
          tables'[k][id].created = tables[k][id].created]_vars

\* A delete of call c completes in this step.
DeleteCompletes(c) == Settles(c, "delete") /\ calls[c].pc = "awaitTx"

Gone(t, k, X) ==
    /\ X \notin DOMAIN t[k]
    /\ k = "project" =>
          ByProject(t["asset"], X) = {} /\ ByProject(t["scene"], X) = {}

ImportResumes(c, k) ==
    /\ calls[c].job.op = "import" /\ calls[c].kind = k /\ calls[c].pc = "resolved"
    /\ calls'[c] # calls[c]

\* C12: the project an import creates from the snapshot of a stored project P
\* has an id other than P's and P's name, and when the import resolves the new
\* project has as many assets and as many scenes as the snapshot lists.
C12_RoundTrip ==
    [][\A c \in CallIds :
          /\ ImportResumes(c, "project") =>
                /\ TheRes(calls[c]).id # Val(calls[c].data, "id")
                /\ TheRes(calls[c]).name = Val(calls[c].data, "name")
          /\ (calls[c].job.op = "import" /\ calls'[c].op = "import") =>
                LET new == TheRes(calls'[c]).id
                IN /\ Cardinality(ByProject(tables'["asset"], new)) = Len(calls[c].job.assets)
                   /\ Cardinality(ByProject(tables'["scene"], new)) = Len(calls[c].job.scenes)]_vars

\* C13: when every call is awaited before the next is made, the project an
\* import creates from a snapshot with a name has an id other than the one in
\* the snapshot and the snapshot's name, also when the store was cleared after
\* the export.
C13_NewIdAfterClear ==
    \A c \in CallIds :
        (/\ calls[c].job.op = "import" /\ calls[c].kind = "project"
         /\ calls[c].pc = "resolved"
         /\ Val(calls[c].data, "name") # "")
        => /\ TheRes(calls[c]).id # Val(calls[c].data, "id")
           /\ TheRes(calls[c]).name = Val(calls[c].data, "name")

\* C14: the project an import creates gets the id the counter holds, and every
\* asset and scene the import creates is built, stored and returned with that
\* project's id as projectId.
C14_ImportOwnership ==
    [][\A c \in CallIds : \A k \in Kinds :
          /\ (calls[c].job.op = "import" /\ IssuesId(c, k)) =>
                IF k = "project"
                THEN TheRec(calls'[c]).id = nextId["project"]
                ELSE TheRec(calls'[c]).projectId = The(calls[c].job.project).id
          /\ (ImportResumes(c, k) /\ k # "project") =>
                /\ TheRes(calls[c]).projectId = The(calls[c].job.project).id
                /\ calls'[c].op = "import" => calls'[c].res = calls[c].job.project]_vars

\* an import has resolved with a project other than the exported one, and the
\* asset stored last belongs to it
C14_Witness ==
    \E c \in CallIds :
        /\ calls[c].op = "import" /\ calls[c].pc = "resolved"
        /\ TheRes(calls[c]).id = Baseline + 1
        /\ Baseline \in DOMAIN tables["project"]
        /\ \E r \in Records(tables["asset"]) :
              r.projectId = Baseline + 1 /\ r.id = nextId["asset"] - 1

\* C15: an asset or scene created by an import has the id of its snapshot
\* entry when that id was free in the store.
C15_KeepsSnapshotId ==
    [][\A c \in CallIds : \A k \in {"asset", "scene"} :
          (calls[c].job.op = "import" /\ CreateResolves(c, k)
              /\ Val(calls[c].data, "id") \notin DOMAIN tables[k]) =>
              TheRes(calls'[c]).id = Val(calls[c].data, "id")]_vars

\* the assets reached from asset id by following parent, at most n times
RECURSIVE Ancestors(_, _, _)
Ancestors(t, S, n) ==
    IF n = 0 THEN {}
    ELSE LET up == UNION {t[i].parent : i \in S \cap DOMAIN t}
         IN up \cup Ancestors(t, up, n - 1)

\* C16: no asset is reached from itself by following parent references.
C16_NoParentCycle ==
    \A id \in DOMAIN tables["asset"] :
        id \notin Ancestors(tables["asset"], {id}, Cardinality(DOMAIN tables["asset"]))

\* call c is made in this step
Called(c) == calls[c].pc = "idle" /\ calls'[c].pc # "idle"

\* C17: the database is opened once: a shared promise, once created, is never
\* dropped and never replaced by a new pending one, the handle once stored is
\* kept, and a call made when the promise exists leaves promise and handle as
\* they are.
C17_OpenOnce ==
    [][/\ initPromise # "null" => initPromise' # "null"
       /\ (initPromise' = "pending" /\ initPromise # "pending") => initPromise = "null"
       /\ db => db'
       /\ \A c \in CallIds :
             (Called(c) /\ initPromise # "null") =>
                 initPromise' = initPromise /\ db' = db]_vars

\* two calls wait on the promise of one open, which has succeeded
C17_Witness ==
    /\ initPromise = "pending" /\ db
    /\ \A c \in CallIds : calls[c].pc = "init"
    /\ calls[1].op = "init" /\ calls[2].op # "init"

\* C18: once the open has failed the shared promise stays rejected, no handle
\* is stored, no transaction is created, tables, Metadata and counters stay as
\* they are, and a call settles only by rejecting with the open error.
C18_OpenFailure ==
    [][initPromise = "rejected" =>
          /\ initPromise' = "rejected" /\ ~db'
          /\ txq' = <<>> /\ tables' = tables /\ meta' = meta /\ nextId' = nextId
          /\ \A c \in CallIds :
                /\ calls'[c].pc \in {"idle", "init", "rejected"}
                /\ calls'[c].pc = "rejected" => calls'[c].err = "init"
                /\ Called(c) => calls'[c].pc = "init"]_vars

\* the open failed; an init call and an exportProject call have both rejected
C18_Witness ==
    /\ initPromise = "rejected" /\ ops = 3
    /\ calls[1].op = "init" /\ calls[1].pc = "rejected"
    /\ calls[2].op = "export" /\ calls[2].pc = "rejected"

\* C19: when clearAll resolves while no other call is unsettled, the tables
\* and Metadata are empty and the three counters are 1000, and loadMetadata
\* over that Metadata store leaves fresh counters at 1000.
C19_ClearResets ==
    [][\A c \in CallIds :
          (/\ Settles(c, "clearAll") /\ calls[c].pc = "awaitTx"
           /\ \A b \in CallIds \ {c} : calls[b].pc \in {"idle", "resolved", "rejected"})
          => /\ calls'[c].pc = "resolved"
             /\ \A k \in Kinds : tables'[k] = EmptyTable /\ nextId'[k] = Baseline
             /\ meta' = EmptyMeta
             /\ \A k \in Kinds :
                   Loaded(meta', [j \in Kinds |-> Baseline])[k] = Baseline]_vars

\* clearAll has resolved after a create had resolved: nothing is stored and
\* the counter that issued the created id is back at 1000
C19_Witness ==
    \E c \in CallIds, b \in CallIds, k \in Kinds :
        /\ calls[c].op = "clearAll" /\ calls[c].pc = "resolved"
        /\ calls[b].op = "create" /\ calls[b].kind = k /\ calls[b].pc = "resolved"
        /\ returned[k] # {} /\ nextId[k] = Baseline
        /\ tables[k] = EmptyTable /\ meta = EmptyMeta

\* C20: the step that completes deleteAsset(A) or deleteScene(S) removes the
\* record with that id from its table and nothing else: every other record of
\* the table, children of A included, the other tables, Metadata and the
\* three counters are as before.
C20_DeleteFrame ==
    [][\A c \in CallIds :
          (DeleteCompletes(c) /\ calls[c].kind # "project") =>
              LET k == calls[c].kind
                  X == calls[c].id
              IN /\ calls'[c].pc = "resolved"
                 /\ DOMAIN tables'[k] = (DOMAIN tables[k]) \ {X}
                 /\ \A i \in DOMAIN tables'[k] : tables'[k][i] = tables[k][i]
                 /\ \A j \in Kinds \ {k} : tables'[j] = tables[j]
                 /\ nextId' = nextId /\ meta' = meta]_vars

\* deleteAsset(1001) has resolved: asset 1001 is gone and asset 1002, whose
\* parent is 1001, is still stored
C20_Witness ==
    \E c \in CallIds :
        /\ calls[c].op = "delete" /\ calls[c].kind = "asset"
        /\ calls[c].id = Baseline + 1 /\ calls[c].pc = "resolved"
        /\ Baseline + 1 \notin DOMAIN tables["asset"]
        /\ Baseline + 2 \in DOMAIN tables["asset"]
        /\ tables["asset"][Baseline + 2].parent = {Baseline + 1}

\* C21: when the write of an update takes effect, the record stored under the
\* id is the one the update read: nothing was written to or deleted from that
\* record between the update's read and its write.
C21_UpdateAtomic ==
    [][\A c \in CallIds :
          (calls[c].op = "update" /\ calls[c].pc = "awaitTx" /\ calls'[c].pc = "resolved")
          => Lookup(tables[calls[c].kind], calls[c].id) = calls[c].res]_vars

Entries(q) == {q[i] : i \in 1..Len(q)}

\* C23: with every call awaited before the next is made, exportProject(P)
\* resolves with the stored project P, with each stored asset whose projectId
\* is P exactly once and no other asset, whatever its branch, and the same for
\* scenes; no step of an export changes a table, a counter or Metadata.
C23_ExportExact ==
    [][\A c \in CallIds :
          /\ (calls[c].job.op = "export" /\ calls'[c].op = "export"
                 /\ calls'[c].pc = "resolved") =>
                LET snapshot == TheRes(calls'[c])
                    P == calls'[c].id
                IN /\ snapshot.project = Lookup(tables["project"], P)
                   /\ Entries(snapshot.assets)
                         = {r \in Records(tables["asset"]) : r.projectId = P}
                   /\ Len(snapshot.assets) = Cardinality(Entries(snapshot.assets))
                   /\ Entries(snapshot.scenes)
                         = {r \in Records(tables["scene"]) : r.projectId = P}
                   /\ Len(snapshot.scenes) = Cardinality(Entries(snapshot.scenes))
          /\ calls[c].job.op = "export" =>
                tables' = tables /\ nextId' = nextId /\ meta' = meta]_vars

\* an export has resolved with the project, its two assets on two branches
\* and its scene, in a store that holds an asset of another projectId
C23_Witness ==
    \E c \in CallIds :
        /\ calls[c].op = "export" /\ calls[c].pc = "resolved"
        /\ TheRes(calls[c]).project # {}
        /\ {r.branchId : r \in Entries(TheRes(calls[c]).assets)} = {"master", "dev"}
        /\ Len(TheRes(calls[c]).scenes) = 1
        /\ \E r \in Records(tables["asset"]) : r.projectId # calls[c].id

\* listAssets / listScenes of call c resolves in this step
ListResolves(c) ==
    /\ Settles(c, "list") /\ calls[c].pc = "awaitTx" /\ calls[c].kind # "project"

\* the branch argument of the list call c: {} when none was given
BranchArg(c) == {p[2] : p \in calls[c].data}

\* C24 as stated: a list resolves with exactly the stored records of the kind
\* whose projectId is P and, when a branch argument b is given, whose branchId
\* is b, for every value of b.
C24_ListExactAnyBranch ==
    [][\A c \in CallIds :
          ListResolves(c) =>
              calls'[c].res =
                  {r \in Records(tables[calls[c].kind]) :
                      /\ r.projectId = calls[c].id
                      /\ BranchArg(c) # {} => r.branchId \in BranchArg(c)}]_vars

\* C24: a list resolves with exactly the stored records of the kind whose
\* projectId is P and, when a non-empty branch argument b is given, whose
\* branchId is b; with no branch argument or the empty string it resolves with
\* exactly the stored records whose projectId is P.
C24_ListExact ==
    [][\A c \in CallIds :
          ListResolves(c) =>
              calls'[c].res =
                  {r \in Records(tables[calls[c].kind]) :
                      /\ r.projectId = calls[c].id
                      /\ BranchArg(c) \notin {{}, {""}} => r.branchId \in BranchArg(c)}]_vars

\* listAssets(1000, 'dev') has resolved with one asset while the project has
\* assets on two branches and the store an asset of another projectId
C24_Witness ==
    \E c \in CallIds :
        /\ calls[c].op = "list" /\ calls[c].kind = "asset" /\ calls[c].pc = "resolved"
        /\ calls[c].data = {<<"branchId", "dev">>}
        /\ Cardinality(calls[c].res) = 1
        /\ Cardinality(ByProject(tables["asset"], Baseline)) = 2
        /\ \E r \in Records(tables["asset"]) : r.projectId = 0

C26_CreatedIsModified ==
    [][\A c \in CallIds : \A k \in Kinds :
          CreateResolves(c, k) => TheRes(calls'[c]).created = TheRes(calls'[c]).modified]_vars

\* the handlers of the adapter of call c that emit has called
HandlersCalled(c) == {ajax[c].fired[j] : j \in 1..Len(ajax[c].fired)}

\* the handlers registered on the adapter of call c for the event it emits
Due(c) == {i \in 1..Len(ajax[c].queue) : ajax[c].queue[i] = ajax[c].timer[1]}

\* C27: once the adapter of a call has emitted, every handler registered on it
\* for the emitted event has been called, whenever it was registered.
C27_LateHandler ==
    \A c \in CallIds : ajax[c].phase = "emitted" => Due(c) \subseteq HandlersCalled(c)

\* C28: the shim call returns with the adapter waiting for its promise and no
\* handler called, also when the promise is settled already; handlers stay
\* registered in the order of their on() calls; no handler is called before
\* the timer fires, and when it fires every handler registered by then for the
\* outcome's event is called with the outcome of the promise.
C28_SyncHandler ==
    [][\A c \in CallIds :
          /\ (ajax[c].phase = "none" /\ ajax'[c].phase # "none") =>
                ajax'[c].phase = "awaiting" /\ ajax'[c].fired = <<>>
                    /\ ajax'[c].invoked = {}
          /\ (ajax[c].phase # "none" /\ ajax'[c].phase # "none") =>
                /\ Len(ajax[c].queue) <= Len(ajax'[c].queue)
                /\ SubSeq(ajax'[c].queue, 1, Len(ajax[c].queue)) = ajax[c].queue
          /\ ajax[c].phase \in {"awaiting", "timer"} => ajax[c].fired = <<>>
          /\ (ajax[c].phase = "awaiting" /\ ajax'[c].phase # "awaiting") =>
                ajax'[c].phase = "timer" /\ ajax'[c].timer = Outcome(PromiseOf(c))
          /\ (ajax[c].phase = "timer" /\ ajax'[c].phase # "timer") =>
                /\ ajax'[c].phase = "emitted"
                /\ {ajax'[c].fired[j] : j \in 1..Len(ajax'[c].fired)} = Due(c)
                /\ Due(c) # {} => ajax'[c].invoked = {ajax[c].timer}]_vars

\* projectUnlock, whose promise is resolved when the adapter is constructed,
\* has emitted 'load' with 200 and the canned value to the handler chained to
\* the call
C28_Witness ==
    \E c \in CallIds :
        /\ ajax[c].phase = "emitted" /\ calls[c].op = "none"
        /\ ajax[c].queue = <<"load", "error">> /\ ajax[c].fired = <<1>>
        /\ ajax[c].invoked = {<<"load", 200, {[success |-> TRUE]}>>}

\* C29: an adapter sets one timer and emits once: when the timer fires the
\* handlers of the one event are called, each once, in the order of their
\* on() calls, and nothing is called before or afterwards.
C29_FlushedOnce ==
    [][\A c \in CallIds :
          /\ ajax[c].phase = "timer" =>
                /\ ajax'[c].phase \in {"timer", "emitted"}
                /\ ajax'[c].timer = ajax[c].timer
          /\ (ajax[c].phase = "timer" /\ ajax'[c].phase = "emitted") =>
                LET f == ajax'[c].fired
                IN /\ \A j, k \in 1..Len(f) : j < k => f[j] < f[k]
                   /\ \A j \in 1..Len(f) : ajax[c].queue[f[j]] = ajax[c].timer[1]
                   /\ Len(f) = Cardinality(Due(c))
          /\ ajax[c].phase = "emitted" =>
                /\ ajax'[c].phase \in {"emitted", "none"}
                /\ ajax'[c].phase = "emitted" =>
                      /\ ajax'[c].fired = ajax[c].fired
                      /\ ajax'[c].invoked = ajax[c].invoked
                      /\ ajax'[c].timer = ajax[c].timer
          /\ ajax'[c].phase # "emitted" => ajax'[c].fired = <<>>]_vars

\* an adapter with two 'load' handlers and an 'error' handler between them
\* has emitted 'load': the first and the third handler were called, in that
\* order
C29_Witness ==
    \E c \in CallIds :
        /\ ajax[c].phase = "emitted" /\ ajax[c].timer[1] = "load"
        /\ ajax[c].queue = <<"load", "error", "load">>
        /\ ajax[c].fired = <<1, 3>>

\* call c was made through projectUnlock or projectTransfer
Stub(c) ==
    /\ ajax[c].phase # "none" /\ ajax[c].via = "promise"
    /\ \/ calls[c].op = "update"
       \/ calls[c].op = "none" /\ calls[c].res = {[success |-> TRUE]}

\* C30: a call of projectUnlock or projectTransfer never has a transaction on
\* the store, and the event its adapter emits is 'load'.
C30_StubsInert ==
    \A c \in CallIds :
        Stub(c) =>
            /\ \A i \in 1..Len(txq) : txq[i].c # c
            /\ ajax[c].phase \in {"timer", "emitted"} => ajax[c].timer[1] = "load"

\* the creates of kind k that were issued an id and are in flight or settled
Creating(k) ==
    {c \in CallIds : calls[c].op = "create" /\ calls[c].kind = k /\ calls[c].rec # {}}

\* C31: in a batch of creates made without awaiting one another, no two calls
\* hold the same id, a call whose record transaction has completed has its
\* record stored as built, a create resolves with the record it was issued,
\* and once no transaction of the batch is pending the persisted counter of
\* the kind is the largest id issued plus one.
C31_BatchIds ==
    \A k \in Kinds :
        /\ \A c \in Creating(k), b \in Creating(k) :
              c # b => TheRec(calls[c]).id # TheRec(calls[b]).id
        /\ \A c \in Creating(k) :
              /\ (calls[c].pc \in {"resolved", "hung"} \/ calls[c].txdone = "complete") =>
                    Lookup(tables[k], TheRec(calls[c]).id) = calls[c].rec
              /\ calls[c].pc = "resolved" => calls[c].res = calls[c].rec
        /\ \A c \in Creating(k) : TheRec(calls[c]).id <= lastIssued[k]
        /\ (lastIssued[k] # 0 /\ txq = <<>>) =>
              k \in DOMAIN meta /\ meta[k] = lastIssued[k] + 1

\* the two creates of a batch have resolved with ids 1000 and 1001, both
\* records are stored and the persisted counter is 1002
C31_Witness ==
    \E k \in Kinds :
        /\ \A c \in CallIds :
              calls[c].op = "create" /\ calls[c].kind = k /\ calls[c].pc = "resolved"
        /\ {TheRes(calls[c]).id : c \in CallIds} = {Baseline, Baseline + 1}
        /\ DOMAIN tables[k] = {Baseline, Baseline + 1}
        /\ k \in DOMAIN meta /\ meta[k] = Baseline + 2

\* the counter of kind k as the Metadata store holds it, 1000 when it holds none
Persisted(k) == IF k \in DOMAIN meta THEN meta[k] ELSE Baseline

\* C32: a transaction is pending, and an id is issued, only when the shared
\* promise has resolved and the handle is stored; the step that resolves the
\* shared promise leaves each counter at its persisted value, or at 1000 when
\* none is persisted; and the first id of a kind issued after a reload is the
\* persisted counter of the kind, or 1000 when none is persisted.
C32_LoadedFirst ==
    [][/\ txq' # <<>> => initPromise' = "resolved" /\ db'
       /\ (initPromise # "resolved" /\ initPromise' = "resolved") =>
             db /\ \A k \in Kinds : nextId'[k] = Persisted(k)
       /\ \A c \in CallIds, k \in Kinds :
             IssuesId(c, k) =>
                 /\ initPromise = "resolved" /\ db
                 /\ lastIssued[k] = 0 => TheRec(calls'[c]).id = Persisted(k)]_vars

\* after a reload a create was issued 1001, the persisted counter of its kind,
\* while record 1000 of an earlier visit is stored
C32_Witness ==
    \E c \in CallIds, k \in Kinds :
        /\ reloaded /\ initPromise = "resolved"
        /\ calls[c].op = "create" /\ calls[c].kind = k /\ calls[c].pc = "awaitMeta"
        /\ TheRec(calls[c]).id = Baseline + 1 /\ nextId[k] = Baseline + 2
        /\ Persisted(k) = Baseline + 1 /\ Baseline \in DOMAIN tables[k]
        /\ Len(txq) = 2

\* table t without the records of project P (kind k: the project itself, or
\* the assets / scenes whose projectId is P)
Less(t, k, P) ==
    [i \in {j \in DOMAIN t : IF k = "project" THEN j # P ELSE t[j].projectId # P} |-> t[i]]

\* the store holds project P with every record it had, or nothing of P
Whole(P) ==
    \E S \in PortStores :
        \/ tables = S
        \/ tables = [k \in Kinds |-> Less(S[k], k, P)]

\* C33: the step in which the transaction of deleteProject(P) ends either
\* resolves the call and removes project P and every asset and scene whose
\* projectId is P, leaving every other record, or fails and removes nothing;
\* no other step removes anything; so the store a get or list of another call
\* reads holds project 1000 with all its assets and scenes or none of them.
C33_CascadeAtomic ==
    [][/\ \A c \in CallIds :
             (calls[c].op = "delete" /\ calls[c].kind = "project"
                 /\ calls[c].pc = "awaitTx" /\ calls'[c].pc # "awaitTx") =>
                 IF calls'[c].pc = "resolved"
                 THEN tables' = [k \in Kinds |-> Less(tables[k], k, calls[c].id)]
                 ELSE tables' = tables
       /\ (\A c \in CallIds : calls'[c].pc = calls[c].pc \/ calls[c].op # "delete") =>
             tables' = tables
       /\ Whole(Baseline)']_vars

\* deleteProject(1000) has resolved after a listAssets(1000) of the other
\* caller had resolved with the two assets of the project: the project, its
\* assets and its scene are gone, the asset of projectId 0 is stored
C33_Witness ==
    \E c \in CallIds, b \in CallIds :
        /\ calls[c].op = "delete" /\ calls[c].kind = "project"
        /\ calls[c].id = Baseline /\ calls[c].pc = "resolved"
        /\ calls[b].op = "list" /\ calls[b].kind = "asset" /\ calls[b].pc = "resolved"
        /\ Cardinality(calls[b].res) = 2
        /\ tables["project"] = EmptyTable /\ tables["scene"] = EmptyTable
        /\ {r.projectId : r \in Records(tables["asset"])} = {0}

\* the transactions of call c that are pending
Pending(c) == {i \in 1..Len(txq) : txq[i].c = c}

\* the records of table t with projectId pid are, in id order, copies of the
\* first entries of q, as far as branchId and parent tell
CopiesInOrder(t, pid, q) ==
    LET made == SortById(ByProject(t, pid))
    IN /\ Len(made) <= Len(q)
       /\ \A j \in 1..Len(made) :
             /\ made[j].branchId = q[j].branchId
             /\ "parent" \in DOMAIN q[j] => made[j].parent = q[j].parent

C35_ParentCopied ==
    [][\A c \in CallIds :
          LET job == calls[c].job
          IN /\ (job.op = "import" /\ IssuesId(c, "asset")) =>
                   TheRec(calls'[c]).parent = job.assets[job.i].parent
             /\ (job.op = "import" /\ CreateResolves(c, "asset")) =>
                   /\ TheRes(calls'[c]).parent = job.assets[job.i].parent
                   /\ tables'["asset"][TheRes(calls'[c]).id].parent
                         = job.assets[job.i].parent]_vars

\* an import has stored the copy of asset 1002 with parent 1001, the id its
\* parent has in the snapshot, while the copy of asset 1001 got another id
C35_Witness ==
    \E c \in CallIds :
        LET pid == The(calls[c].job.project).id
        IN /\ calls[c].job.op = "import" /\ calls[c].job.project # {}
           /\ pid # Baseline
           /\ \E r \in ByProject(tables["asset"], pid), q \in ByProject(tables["asset"], pid) :
                 /\ r.parent = {Baseline + 1} /\ q.parent = {}
                 /\ q.id # Baseline + 1 /\ r.id # Baseline + 2
           /\ tables["asset"][Baseline + 1].projectId = Baseline

\* C36: no step of a create changes or removes a stored record; a create whose
\* id is already stored leaves the whole table as it is and, when its handlers
\* are attached, rejects.
C36_AddKeepsStored ==
    [][/\ \A k \in Kinds : \A id \in DOMAIN tables[k] :
             id \in DOMAIN tables'[k] /\ tables'[k][id] = tables[k][id]
       /\ \A c \in CallIds :
             (/\ calls[c].op = "create" /\ calls[c].rec # {}
              /\ \E i \in Pending(c) : txq[i].t = "add"
              /\ \A i \in Pending(c)' : txq'[i].t # "add"
              /\ TheRec(calls[c]).id \in DOMAIN tables[calls[c].kind])
             => /\ tables' = tables
                /\ calls'[c].pc # "resolved"
                /\ calls[c].pc = "awaitTx" =>
                      calls'[c].pc = "rejected" /\ calls'[c].err = "constraint"]_vars

\* a createAsset was issued 1001 for a record of project 1000 and was refused:
\* asset 1001, stored before with projectId 0, is as it was
C36_Witness ==
    \E c \in CallIds :
        /\ calls[c].op = "create" /\ calls[c].kind = "asset"
        /\ calls[c].pc = "rejected" /\ calls[c].err = "constraint"
        /\ TheRec(calls[c]).id = Baseline + 1
        /\ TheRec(calls[c]).projectId = Baseline
        /\ tables["asset"][Baseline + 1] = NewRecord("asset", Baseline + 1, {}, 0, 0)

\* C37: every stored record has an id below the in-memory counter of its kind.
C37_StoredBelowCounter ==
    \A k \in Kinds : \A id \in DOMAIN tables[k] : id < nextId[k]

\* call c is an importProject of a snapshot without a project, at its
\* createProject call or rejected
Bare(call) ==
    \/ call.job.op = "import" /\ call.data = Undefined
    \/ call.op = "import" /\ call.pc = "rejected" /\ call.err = "TypeError"

\* C38: an importProject of a snapshot without a project never resolves and
\* never has a transaction pending; no step of it changes a table, Metadata
\* or the pending transactions; on an open store its createProject rejects
\* with a TypeError and the import rejects with the same error.
C38_BareImportRejects ==
    [][\A c \in CallIds :
          /\ Bare(calls'[c]) =>
                /\ calls'[c].pc # "resolved"
                /\ Pending(c)' = {}
          /\ (Bare(calls'[c]) /\ calls'[c] # calls[c]) =>
                tables' = tables /\ meta' = meta /\ txq' = txq
          /\ (Bare(calls[c]) /\ calls[c].pc = "init" /\ calls'[c].pc # "init"
                 /\ initPromise = "resolved") =>
                calls'[c].pc = "rejected" /\ calls'[c].err = "TypeError"
          /\ (Bare(calls[c]) /\ calls[c].pc = "rejected" /\ calls[c].job # NoJob
                 /\ calls'[c] # calls[c]) =>
                /\ calls'[c].op = "import" /\ calls'[c].pc = "rejected"
                /\ calls'[c].err = calls[c].err]_vars

\* an import of the snapshot without a project has rejected with the
\* TypeError: tables and Metadata are as the page found them, and the project
\* counter in memory is one ahead of the persisted one
C38_Witness ==
    \E c \in CallIds :
        /\ calls[c].op = "import" /\ calls[c].pc = "rejected"
        /\ calls[c].err = "TypeError"
        /\ tables \in PortStores
        /\ meta["project"] = Baseline + 1 /\ nextId["project"] = Baseline + 2
        /\ txq = <<>>

\* C39: the local implementation is merged at most once for one call of
\* interceptRestApi, and only by a run of the interval callback that finds the
\* editor's REST API with the offline flag set, no later than 10 s after the
\* call; the interval callback runs 100 ms after its last run (or the call);
\* a run that finds the API clears the interval; the interval once cleared is
\* never set again, and it is cleared when more than 10 s have passed, so that
\* nothing is merged from then on whenever the API appears.
C39_ReplacedInTime ==
    [][/\ page'.local <= 1
       /\ page'.local # page.local =>
             /\ page.editor /\ page.offline /\ page.interval
             /\ page.time <= StopMs
             /\ page'.polled = page.time /\ ~page'.interval
       /\ page'.polled # page.polled =>
             /\ page'.polled = page.polled + PollMs /\ page.time = page'.polled
             /\ page.editor => ~page'.interval
       /\ (page.called /\ ~page.interval) => ~page'.interval
       /\ page'.time > StopMs => ~page'.interval]_vars

\* the editor loaded after the first polls, the local implementation was
\* merged once, and the deadline has passed with the editor and the flag there
C39_Witness ==
    /\ page.local = 1 /\ page.polled >= 2 * PollMs
    /\ page.time > StopMs /\ ~page.timeout /\ ~page.interval
    /\ page.editor /\ page.offline

====
